---------------------------- MODULE Spec2Model ----------------------------
(***************************************************************************)
(* A model of the client-side visitor gate: the blacklist store and its    *)
(* failed-attempt escalation (blacklistSystem), the suspicious-pattern      *)
(* score, and the page-load flow of initializeCaptcha.                      *)
(*                                                                         *)
(* Strings are sequences of one-character strings, so that toLowerCase,    *)
(* includes, join, btoa and substring are computed as the code computes    *)
(* them.  Time is in milliseconds since the first page load.               *)
(***************************************************************************)
EXTENDS Integers, Sequences, FiniteSets, TLC

----------------------------------------------------------------------------
(* Program constants                                                        *)

\* thresholds.maxFailedAttempts
maxFailedAttempts == 3

\* thresholds.blacklistDuration, in seconds
blacklistDuration == 86400

\* the factor of blacklistDuration * 1000 in addToBlacklist
MsPerSecond == 1000

\* substring(0, 32) in getClientIdentifier
ClientIdLength == 32

\* the literal 0.4 of hasTooManySuspiciousPatterns, as the fraction 4/10
RatioThresholdNum == 4
RatioThresholdDen == 10

\* fingerprint.fonts.length < 2
MinFonts == 2

\* devicePixelRatio is kept in hundredths
PixelRatioScale == 100

\* "Keep only the last 100 records" in recordBotVisit
MaxBotVisits == 100

----------------------------------------------------------------------------
(* Bounds of the model                                                      *)

\* page loads, recorded failed attempts and passages of time explored in one
\* behaviour, together
MaxSteps == 6

----------------------------------------------------------------------------
(* Strings                                                                  *)

Ascii ==
  <<
    " ", "!", "\"", "#", "$", "%", "&", "'", "(", ")", "*", "+", ",", "-", ".", "/", "0", "1", "2",
    "3", "4", "5", "6", "7", "8", "9", ":", ";", "<", "=", ">", "?", "@", "A", "B", "C", "D", "E",
    "F", "G", "H", "I", "J", "K", "L", "M", "N", "O", "P", "Q", "R", "S", "T", "U", "V", "W", "X",
    "Y", "Z", "[", "\\", "]", "^", "_", "grave", "a", "b", "c", "d", "e", "f", "g", "h", "i", "j",
    "k", "l", "m", "n", "o", "p", "q", "r", "s", "t", "u", "v", "w", "x", "y", "z", "{", "|", "}",
    "~"
  >>

UpperCase ==
  <<
    "A", "B", "C", "D", "E", "F", "G", "H", "I", "J", "K", "L", "M", "N", "O", "P", "Q", "R", "S",
    "T", "U", "V", "W", "X", "Y", "Z"
  >>

LowerCase ==
  <<
    "a", "b", "c", "d", "e", "f", "g", "h", "i", "j", "k", "l", "m", "n", "o", "p", "q", "r", "s",
    "t", "u", "v", "w", "x", "y", "z"
  >>

Base64Alphabet ==
  <<
    "A", "B", "C", "D", "E", "F", "G", "H", "I", "J", "K", "L", "M", "N", "O", "P", "Q", "R", "S",
    "T", "U", "V", "W", "X", "Y", "Z", "a", "b", "c", "d", "e", "f", "g", "h", "i", "j", "k", "l",
    "m", "n", "o", "p", "q", "r", "s", "t", "u", "v", "w", "x", "y", "z", "0", "1", "2", "3", "4",
    "5", "6", "7", "8", "9", "+", "/"
  >>

Digits ==
  <<
    "0", "1", "2", "3", "4", "5", "6", "7", "8", "9"
  >>

IndexOf(table, c) == CHOOSE i \in 1..Len(table) : table[i] = c

\* String.prototype.charCodeAt for printable ASCII
CharCode(c) == 31 + IndexOf(Ascii, c)

LowerChar(c) ==
  IF \E i \in 1..Len(UpperCase) : UpperCase[i] = c
    THEN LowerCase[IndexOf(UpperCase, c)]
    ELSE c

\* String.prototype.toLowerCase
toLowerCase(s) == [i \in 1..Len(s) |-> LowerChar(s[i])]

\* String.prototype.includes
includes(s, sub) ==
  \E k \in 0..(Len(s) - Len(sub)) : \A j \in 1..Len(sub) : s[k + j] = sub[j]

\* a substring that keeps the whole string
substring0_Whole(s, n) == s

\* String.prototype.substring(0, n)
substring0(s, n) == SubSeq(s, 1, IF Len(s) < n THEN Len(s) ELSE n)

\* Number.prototype.toString for a non-negative integer
RECURSIVE NatToString(_)
NatToString(n) ==
  IF n < 10 THEN <<Digits[n + 1]>>
  ELSE NatToString(n \div 10) \o <<Digits[(n % 10) + 1]>>

\* Array.prototype.join
RECURSIVE join(_, _)
join(parts, sep) ==
  IF Len(parts) = 0 THEN <<>>
  ELSE IF Len(parts) = 1 THEN parts[1]
  ELSE parts[1] \o sep \o join(Tail(parts), sep)

\* one group of up to three bytes as four base64 characters
Base64Group(g) ==
  LET b1 == CharCode(g[1])
      b2 == IF Len(g) >= 2 THEN CharCode(g[2]) ELSE 0
      b3 == IF Len(g) >= 3 THEN CharCode(g[3]) ELSE 0
      n  == b1 * 65536 + b2 * 256 + b3
  IN  << Base64Alphabet[(n \div 262144) + 1],
         Base64Alphabet[((n \div 4096) % 64) + 1],
         IF Len(g) >= 2 THEN Base64Alphabet[((n \div 64) % 64) + 1] ELSE "=",
         IF Len(g) >= 3 THEN Base64Alphabet[(n % 64) + 1] ELSE "=" >>

\* window.btoa
RECURSIVE btoa(_)
btoa(s) ==
  IF Len(s) = 0 THEN <<>>
  ELSE IF Len(s) <= 3 THEN Base64Group(s)
  ELSE Base64Group(SubSeq(s, 1, 3)) \o btoa(SubSeq(s, 4, Len(s)))

----------------------------------------------------------------------------
(* Signature lists of blacklistSystem                                       *)

knownBotSignatures ==
  <<
    <<"g","o","o","g","l","e","b","o","t">>, <<"b","i","n","g","b","o","t">>,
    <<"y","a","n","d","e","x","b","o","t">>, <<"s","l","u","r","p">>,
    <<"d","u","c","k","d","u","c","k","b","o","t">>,
    <<"b","a","i","d","u","s","p","i","d","e","r">>, <<"b","y","t","e","s","p","i","d","e","r">>,
    <<"f","a","c","e","b","o","o","k","e","x","t","e","r","n","a","l","h","i","t">>,
    <<"t","w","i","t","t","e","r","b","o","t">>, <<"r","o","g","e","r","b","o","t">>,
    <<"l","i","n","k","e","d","i","n","b","o","t">>, <<"e","m","b","e","d","l","y">>,
    <<"q","u","o","r","a"," ","l","i","n","k"," ","p","r","e","v","i","e","w">>,
    <<"s","h","o","w","y","o","u","b","o","t">>, <<"o","u","t","b","r","a","i","n">>,
    <<"p","i","n","t","e","r","e","s","t">>, <<"s","l","a","c","k","b","o","t">>,
    <<"v","k","s","h","a","r","e">>, <<"w","3","c","_","v","a","l","i","d","a","t","o","r">>,
    <<"p","o","s","t","m","a","n">>, <<"c","u","r","l">>, <<"w","g","e","t">>,
    <<"p","y","t","h","o","n","-","r","e","q","u","e","s","t","s">>, <<"a","h","r","e","f","s">>,
    <<"s","e","m","r","u","s","h","b","o","t">>, <<"m","j","1","2","b","o","t">>,
    <<"a","p","p","l","e","b","o","t">>, <<"d","o","t","b","o","t">>,
    <<"z","o","o","m","i","n","f","o","b","o","t">>, <<"s","c","a","n","n","e","r">>,
    <<"c","r","a","w","l","e","r">>, <<"s","p","i","d","e","r">>,
    <<"h","e","a","d","l","e","s","s">>, <<"s","c","r","a","p","e","r">>,
    <<"s","e","l","e","n","i","u","m">>, <<"w","e","b","d","r","i","v","e","r">>,
    <<"p","u","p","p","e","t","e","e","r">>, <<"p","h","a","n","t","o","m">>,
    <<"n","i","g","h","t","m","a","r","e">>, <<"j","s","d","o","m">>
  >>

securityTools ==
  <<
    <<"a","v","a","s","t">>, <<"a","v","g">>, <<"a","v","i","r","a">>,
    <<"b","i","t","d","e","f","e","n","d","e","r">>, <<"k","a","s","p","e","r","s","k","y">>,
    <<"m","c","a","f","e","e">>, <<"n","o","r","t","o","n">>, <<"e","s","e","t">>,
    <<"f","-","s","e","c","u","r","e">>, <<"t","r","e","n","d"," ","m","i","c","r","o">>,
    <<"s","o","p","h","o","s">>, <<"s","y","m","a","n","t","e","c">>,
    <<"t","r","u","s","t","w","a","v","e">>, <<"f","o","r","c","e","p","o","i","n","t">>,
    <<"c","h","e","c","k","p","o","i","n","t">>, <<"b","a","r","r","a","c","u","d","a">>,
    <<"m","i","m","e","c","a","s","t">>, <<"p","r","o","o","f","p","o","i","n","t">>,
    <<"f","i","r","e","e","y","e">>, <<"c","r","o","w","d","s","t","r","i","k","e">>,
    <<"c","y","r","e","n">>, <<"s","p","a","m","h","a","u","s">>, <<"s","p","a","m","c","o","p">>,
    <<"n","e","t","c","r","a","f","t">>, <<"v","i","r","u","s","t","o","t","a","l">>,
    <<"s","u","c","u","r","i">>, <<"u","r","l","s","c","a","n">>, <<"z","s","c","a","l","e","r">>,
    <<"o","f","f","i","c","e","3","6","5">>,
    <<"m","i","c","r","o","s","o","f","t","-","s","e","c","u","r","i","t","y">>,
    <<"c","i","s","c","o">>, <<"f","o","r","c","e","p","o","i","n","t">>,
    <<"c","o","f","e","n","s","e">>
  >>
UA_Chrome ==
  <<"M","o","z","i","l","l","a","/","5",".","0"," ","(","W","i","n","d","o","w","s"," ","N","T"," ","1","0",".","0",";"," ","W","i","n","6","4",";"," ","x","6","4",")"," ","C","h","r","o","m","e","/","1","2","0",".","0">>

UA_Firefox ==
  <<"M","o","z","i","l","l","a","/","5",".","0"," ","(","W","i","n","d","o","w","s"," ","N","T"," ","1","0",".","0",";"," ","r","v",":","1","0","9",".","0",")"," ","F","i","r","e","f","o","x","/","1","1","5",".","0">>

UA_Googlebot ==
  <<"M","o","z","i","l","l","a","/","5",".","0"," ","(","c","o","m","p","a","t","i","b","l","e",";"," ","G","o","o","g","l","e","b","o","t","/","2",".","1",")">>

UA_WgetAvast ==
  <<"W","g","e","t","/","1",".","2","1",".","4"," ","A","v","a","s","t","-","S","c","a","n">>

UA_Spoofed ==
  <<"M","o","z","i","l","l","a","/","5",".","0"," ","C","h","r","o","m","e","/","1","2","0",".","0"," ","F","i","r","e","f","o","x","/","1","1","5",".","0">>

UA_Kaspersky ==
  <<"M","o","z","i","l","l","a","/","5",".","0"," ","K","a","s","p","e","r","s","k","y","-","S","c","a","n">>

UA_Stealth ==
  <<"M","o","z","i","l","l","a","/","5",".","0"," ","(","X","1","1",";"," ","L","i","n","u","x"," ","x","8","6","_","6","4",")"," ","C","h","r","o","m","e","/","1","1","9",".","0">>

Lang_enUS ==
  <<"e","n","-","U","S">>

Lang_deDE ==
  <<"d","e","-","D","E">>

Platform_Win32 ==
  <<"W","i","n","3","2">>

Platform_Linux ==
  <<"L","i","n","u","x"," ","x","8","6","_","6","4">>

Vendor_Google ==
  <<"G","o","o","g","l","e"," ","I","n","c",".">>

CanvasPng_A ==
  <<"d","a","t","a",":","i","m","a","g","e","/","p","n","g",";","b","a","s","e","6","4",",","i","V","B","O","R","w","0","K","G","g","o","A","A","A","A","N","S","U","h","E","U","g","A","A","A","M","g","A">>

CanvasPng_B ==
  <<"d","a","t","a",":","i","m","a","g","e","/","p","n","g",";","b","a","s","e","6","4",",","i","V","B","O","R","w","0","K","G","g","o","A","A","A","A","N","S","U","h","E","U","g","A","A","A","M","g","B">>

NoCanvas ==
  <<"n","o","_","c","a","n","v","a","s">>

Pipe ==
  <<"|">>

LetterX ==
  <<"x">>

Str_chrome ==
  <<"c","h","r","o","m","e">>

Str_firefox ==
  <<"f","i","r","e","f","o","x">>
----------------------------------------------------------------------------
(* Browser environments: what navigator, screen, window and the probes of  *)
(* one browser return.  languagesLength and pluginsLength are -1 when the  *)
(* property is undefined; devicePixelRatio is in hundredths.               *)

Undefined == -1

Environments ==
  << \* 1: a desktop Chrome
     [ userAgent |-> UA_Chrome, language |-> Lang_enUS,
       screenWidth |-> 1920, screenHeight |-> 1080,
       hardwareConcurrency |-> 8, deviceMemory |-> 8,
       platform |-> Platform_Win32, vendor |-> Vendor_Google,
       canvasThrows |-> FALSE, canvasDataURL |-> CanvasPng_A,
       windowChrome |-> TRUE, installTrigger |-> FALSE,
       languagesLength |-> 2, localStorage |-> TRUE, sessionStorage |-> TRUE,
       devicePixelRatio |-> 150, pluginsLength |-> 3,
       fontsDetected |-> 5, canvasBlocked |-> FALSE, webgl |-> TRUE ],
     \* 2: a crawler that announces itself in mixed case
     [ userAgent |-> UA_Googlebot, language |-> Lang_enUS,
       screenWidth |-> 1024, screenHeight |-> 768,
       hardwareConcurrency |-> 2, deviceMemory |-> 0,
       platform |-> Platform_Linux, vendor |-> <<>>,
       canvasThrows |-> TRUE, canvasDataURL |-> <<>>,
       windowChrome |-> FALSE, installTrigger |-> FALSE,
       languagesLength |-> 1, localStorage |-> TRUE, sessionStorage |-> TRUE,
       devicePixelRatio |-> 100, pluginsLength |-> 0,
       fontsDetected |-> 0, canvasBlocked |-> TRUE, webgl |-> FALSE ],
     \* 3: a user agent on both signature lists
     [ userAgent |-> UA_WgetAvast, language |-> Lang_enUS,
       screenWidth |-> 800, screenHeight |-> 600,
       hardwareConcurrency |-> 0, deviceMemory |-> 0,
       platform |-> Platform_Linux, vendor |-> <<>>,
       canvasThrows |-> TRUE, canvasDataURL |-> <<>>,
       windowChrome |-> FALSE, installTrigger |-> FALSE,
       languagesLength |-> 0, localStorage |-> TRUE, sessionStorage |-> TRUE,
       devicePixelRatio |-> 100, pluginsLength |-> 0,
       fontsDetected |-> 0, canvasBlocked |-> TRUE, webgl |-> FALSE ],
     \* 4: a mail security scanner
     [ userAgent |-> UA_Kaspersky, language |-> Lang_enUS,
       screenWidth |-> 1280, screenHeight |-> 720,
       hardwareConcurrency |-> 4, deviceMemory |-> 4,
       platform |-> Platform_Win32, vendor |-> Vendor_Google,
       canvasThrows |-> FALSE, canvasDataURL |-> CanvasPng_A,
       windowChrome |-> TRUE, installTrigger |-> FALSE,
       languagesLength |-> 1, localStorage |-> TRUE, sessionStorage |-> TRUE,
       devicePixelRatio |-> 100, pluginsLength |-> 1,
       fontsDetected |-> 4, canvasBlocked |-> FALSE, webgl |-> TRUE ],
     \* 5: an automated browser that hides its name
     [ userAgent |-> UA_Stealth, language |-> Lang_enUS,
       screenWidth |-> 800, screenHeight |-> 600,
       hardwareConcurrency |-> 2, deviceMemory |-> 0,
       platform |-> Platform_Linux, vendor |-> Vendor_Google,
       canvasThrows |-> FALSE, canvasDataURL |-> CanvasPng_B,
       windowChrome |-> FALSE, installTrigger |-> FALSE,
       languagesLength |-> 0, localStorage |-> TRUE, sessionStorage |-> TRUE,
       devicePixelRatio |-> 100, pluginsLength |-> 0,
       fontsDetected |-> 1, canvasBlocked |-> FALSE, webgl |-> FALSE ] >>

EnvIds == 1..Len(Environments)

\* (value || '') followed by the string conversion of join
NumberOrEmpty(n) == IF n = 0 THEN <<>> ELSE NatToString(n)

\* the array components of getClientIdentifier, after the canvas is pushed
ClientIdComponents(e) ==
  << e.userAgent,
     e.language,
     NatToString(e.screenWidth) \o LetterX \o NatToString(e.screenHeight),
     NumberOrEmpty(e.hardwareConcurrency),
     NumberOrEmpty(e.deviceMemory),
     e.platform,
     e.vendor,
     IF e.canvasThrows THEN NoCanvas ELSE e.canvasDataURL >>

\* blacklistSystem.getClientIdentifier
getClientIdentifier(e) ==
  substring0(btoa(join(ClientIdComponents(e), Pipe)), ClientIdLength)

----------------------------------------------------------------------------
(* JavaScript objects with string keys, in insertion order: a sequence of  *)
(* <<key, value>> pairs without repeated keys.                             *)

Keys(obj) == [i \in 1..Len(obj) |-> obj[i][1]]

Has(obj, k) == \E i \in 1..Len(obj) : obj[i][1] = k

Get(obj, k) == obj[CHOOSE i \in 1..Len(obj) : obj[i][1] = k][2]

\* obj[k] = v
Put(obj, k, v) ==
  IF Has(obj, k)
    THEN [i \in 1..Len(obj) |-> IF obj[i][1] = k THEN <<k, v>> ELSE obj[i]]
    ELSE Append(obj, <<k, v>>)

\* delete obj[k]
Delete(obj, k) == SelectSeq(obj, LAMBDA p : p[1] # k)

----------------------------------------------------------------------------
(* localStorage items.  An item is absent (getItem returns null), holds    *)
(* the JSON text of a value, or holds text that JSON.parse rejects.        *)

NullItem == [kind |-> "null"]

MalformedItem == [kind |-> "malformed"]

\* JSON.stringify, kept with the value it encodes
JSONstringify(v) == [kind |-> "json", value |-> v]

\* JSON.parse(localStorage.getItem(key) || fallback): threw, or the value
ParseItem(item, fault, fallback) ==
  IF fault = "getItem" THEN [threw |-> TRUE]
  ELSE IF item.kind = "null" THEN [threw |-> FALSE, value |-> fallback]
  ELSE IF item.kind = "malformed" THEN [threw |-> TRUE]
  ELSE [threw |-> FALSE, value |-> item.value]

\* localStorage.setItem throws
SetItemThrows(fault) == fault = "setItem"

----------------------------------------------------------------------------
(* State                                                                    *)

VARIABLES
  now,               \* the clock that Date.now() reads
  lsBlacklist,       \* localStorage item 'captcha_blacklist'
  lsFailedAttempts,  \* localStorage item 'captcha_failed_attempts'
  lsBotVisits,       \* localStorage item 'bot_visits'
  lsFault,           \* which localStorage call throws: "none", "getItem", "setItem"
  failedAttempts,    \* blacklistSystem.failedAttempts of the current page
  blacklistedIPs,    \* blacklistSystem.blacklistedIPs of the current page
  env,               \* the browser of the current page (0 before the first load)
  pcInit,            \* the DOMContentLoaded handler that calls blacklistSystem.init
  pc,                \* where initializeCaptcha is
  stage,             \* which await of collectFingerprintComponents is pending
  blCheck,           \* what checkBlacklist returned in this page load
  suspicious,        \* what hasTooManySuspiciousPatterns returned in this page load
  armed,             \* the submit listener is registered
  tokenRequested,    \* generateSecureToken was called
  shown,             \* what replaced the page: "none", "construction", "data.php"
  log,               \* the calls initializeCaptcha made, in order
  lastOp,            \* the operation that ran last, with its arguments and result
  steps,             \* how much of MaxSteps is used
  scoreInput,        \* the argument and globals of one scoring call
  scoreVerdict,      \* its result
  fnInput,           \* the arguments and globals of one call of another function
  fnResult,          \* what that call returned and did
  lsSecureToken,     \* localStorage item 'secureToken'
  lsTokenTimestamp,  \* localStorage item 'tokenTimestamp'
  submit,            \* the last invocation of handleFormSubmit in this page
  visits,            \* how many bot visits were recorded
  visitLog,          \* every bot visit recorded so far, in order
  tabs,              \* blacklistSystem.failedAttempts of each further tab
  dynamicToken,      \* the value of the field #dynamic-token of the current page
  tracking,          \* interactionData, the object initializeInteractionTracking returned
  moves,             \* the mousemove events dispatched so far, in order
  body,              \* the children of document.body, in order
  adBlocker          \* the promise of detectAdBlocker

storeVars == <<now, lsBlacklist, lsFailedAttempts, lsBotVisits, failedAttempts, blacklistedIPs>>

flowVars == <<pc, stage, blCheck, suspicious, armed, tokenRequested, shown, log>>

scoreVars == <<scoreInput, scoreVerdict>>

fnVars == <<fnInput, fnResult>>

submitVars == <<lsSecureToken, lsTokenTimestamp, submit, dynamicToken>>

visitVars == <<visits, visitLog>>

trackVars == <<tracking, moves>>

domVars == <<body, adBlocker>>

moreVars == <<fnVars, submitVars, visitVars, tabs, trackVars, domVars>>

vars == <<storeVars, lsFault, env, pcInit, flowVars, lastOp, steps, scoreVars, moreVars>>

\* the blacklist store as one value, so that the operations compose
Store ==
  [ now |-> now, lsBlacklist |-> lsBlacklist, lsFailedAttempts |-> lsFailedAttempts,
    lsBotVisits |-> lsBotVisits, failedAttempts |-> failedAttempts,
    blacklistedIPs |-> blacklistedIPs ]

Install(S) ==
  /\ now' = S.now
  /\ lsBlacklist' = S.lsBlacklist
  /\ lsFailedAttempts' = S.lsFailedAttempts
  /\ lsBotVisits' = S.lsBotVisits
  /\ failedAttempts' = S.failedAttempts
  /\ blacklistedIPs' = S.blacklistedIPs

----------------------------------------------------------------------------
(* blacklistSystem                                                          *)

\* a threshold test that escalates one attempt late
ThresholdReached_Above(record) == record.count > maxFailedAttempts

\* this.failedAttempts[clientId].count >= this.thresholds.maxFailedAttempts
ThresholdReached(record) == record.count >= maxFailedAttempts

\* Date.now() + (this.thresholds.blacklistDuration * 1000)
ExpiresFrom(t) == t + blacklistDuration * MsPerSecond

\* an expiry test with the comparison turned round
IsActive_Inverted(entry, t) == entry.expires < t

\* blacklist[clientId].expires > Date.now()
IsActive(entry, t) == entry.expires > t

\* blacklist[clientId].expires < now
IsExpired(entry, t) == entry.expires < t

\* the second Date.now() of addToBlacklist reads the clock d ms after the first
addToBlacklist(S, fault, clientId, reasons, d) ==
  LET parsed == ParseItem(S.lsBlacklist, fault, <<>>)
  IN  IF parsed.threw THEN S
      ELSE
        LET added     == S.now
            later     == S.now + d
            entry     == [added |-> added, expires |-> ExpiresFrom(later), reasons |-> reasons]
            blacklist == Put(parsed.value, clientId, entry)
            S1        == [S EXCEPT !.now = later]
        IN  IF SetItemThrows(fault) THEN S1
            ELSE [S1 EXCEPT !.lsBlacklist = JSONstringify(blacklist),
                            !.blacklistedIPs = Append(@, clientId)]

saveFailedAttempts(S, fault) ==
  IF SetItemThrows(fault) THEN S
  ELSE [S EXCEPT !.lsFailedAttempts = JSONstringify(S.failedAttempts)]

\* what recordFailedAttempt passes to addToBlacklist
ReasonsForBlacklist(record) == record.reasons

\* a call that first reads back the persisted map, as loadFailedAttempts would
recordFailedAttempt_ReloadsFirst(S, fault, clientId, reason, d) ==
  LET parsed   == ParseItem(S.lsFailedAttempts, fault, <<>>)
      loaded   == IF parsed.threw THEN <<>> ELSE parsed.value
      isNew    == ~Has(loaded, clientId)
      stamp    == IF isNew THEN S.now + d ELSE S.now
      before   == IF isNew
                    THEN [count |-> 0, reasons |-> <<>>, firstAttempt |-> S.now]
                    ELSE Get(loaded, clientId)
      after    == [before EXCEPT
                     !.count = @ + 1,
                     !.reasons = Append(@, [reason |-> reason, timestamp |-> stamp])]
      S1       == [S EXCEPT !.now = stamp, !.failedAttempts = Put(loaded, clientId, after)]
      S2       == IF ThresholdReached(after)
                    THEN LET S3 == addToBlacklist([S1 EXCEPT !.now = @ + d], fault,
                                                  clientId, ReasonsForBlacklist(after), d)
                         IN  [S3 EXCEPT !.failedAttempts = Delete(@, clientId)]
                    ELSE S1
  IN  saveFailedAttempts(S2, fault)

\* clientId is this.getClientIdentifier(); the clock advances by d from each
\* Date.now() of the call to the next
recordFailedAttempt(S, fault, clientId, reason, d) ==
  LET isNew    == ~Has(S.failedAttempts, clientId)
      stamp    == IF isNew THEN S.now + d ELSE S.now
      before   == IF isNew
                    THEN [count |-> 0, reasons |-> <<>>, firstAttempt |-> S.now]
                    ELSE Get(S.failedAttempts, clientId)
      after    == [before EXCEPT
                     !.count = @ + 1,
                     !.reasons = Append(@, [reason |-> reason, timestamp |-> stamp])]
      S1       == [S EXCEPT !.now = stamp, !.failedAttempts = Put(@, clientId, after)]
      S2       == IF ThresholdReached(after)
                    THEN LET S3 == addToBlacklist([S1 EXCEPT !.now = @ + d], fault,
                                                  clientId, ReasonsForBlacklist(after), d)
                         IN  [S3 EXCEPT !.failedAttempts = Delete(@, clientId)]
                    ELSE S1
  IN  saveFailedAttempts(S2, fault)

isClientBlacklisted(S, fault, clientId) ==
  LET parsed == ParseItem(S.lsBlacklist, fault, <<>>)
  IN  IF parsed.threw THEN FALSE
      ELSE Has(parsed.value, clientId) /\ IsActive(Get(parsed.value, clientId), S.now)

\* a catch block that keeps the runtime list it had
loadBlacklist_KeepOnThrow(S, fault) ==
  LET parsed == ParseItem(S.lsBlacklist, fault, <<>>)
  IN  IF parsed.threw THEN S
      ELSE [S EXCEPT !.blacklistedIPs = Keys(parsed.value)]

\* the catch block assigns [] to this.blacklistedIPs
loadBlacklist(S, fault) ==
  LET parsed == ParseItem(S.lsBlacklist, fault, <<>>)
  IN  IF parsed.threw THEN [S EXCEPT !.blacklistedIPs = <<>>]
      ELSE [S EXCEPT !.blacklistedIPs = Keys(parsed.value)]

cleanupExpiredEntries(S, fault) ==
  LET parsed == ParseItem(S.lsBlacklist, fault, <<>>)
  IN  IF parsed.threw THEN S
      ELSE
        LET kept    == SelectSeq(parsed.value, LAMBDA p : ~IsExpired(p[2], S.now))
            changed == Len(kept) # Len(parsed.value)
        IN  IF changed /\ ~SetItemThrows(fault)
              THEN [S EXCEPT !.lsBlacklist = JSONstringify(kept),
                             !.blacklistedIPs = Keys(kept)]
              ELSE S

\* blacklistSystem.init
init(S, fault) == cleanupExpiredEntries(loadBlacklist(S, fault), fault)

\* the user agent compared as it was sent
UserAgentAsSent(e) == e.userAgent

\* navigator.userAgent.toLowerCase()
UserAgentForMatching(e) == toLowerCase(e.userAgent)

MatchesAny(userAgent, signatures) ==
  \E i \in 1..Len(signatures) : includes(userAgent, signatures[i])

\* the two loops over the signature lists, in the order of checkBlacklist:
\* which list, if any, blocks the user agent
SignatureVerdict(e) ==
  LET userAgent == UserAgentForMatching(e)
  IN  IF MatchesAny(userAgent, knownBotSignatures) THEN "known_bot"
      ELSE IF MatchesAny(userAgent, securityTools) THEN "security_tool"
      ELSE "null"

\* the values above for each browser of the model, computed once
ClientIdOf == [i \in EnvIds |-> getClientIdentifier(Environments[i])]

SignatureVerdictOf == [i \in EnvIds |-> SignatureVerdict(Environments[i])]

\* the result object of checkBlacklist in browser i, with the store after the call
checkBlacklist(S, fault, i, d) ==
  IF SignatureVerdictOf[i] = "known_bot"
    THEN [ store |-> recordFailedAttempt(S, fault, ClientIdOf[i], "known_bot_useragent", d),
           blocked |-> TRUE, reason |-> "known_bot" ]
  ELSE IF SignatureVerdictOf[i] = "security_tool"
    THEN [ store |-> recordFailedAttempt(S, fault, ClientIdOf[i], "security_tool_detected", d),
           blocked |-> TRUE, reason |-> "security_tool" ]
  ELSE IF isClientBlacklisted(S, fault, ClientIdOf[i])
    THEN [ store |-> S, blocked |-> TRUE, reason |-> "blacklisted" ]
  ELSE [ store |-> S, blocked |-> FALSE, reason |-> "null" ]

ClientIds == { ClientIdOf[i] : i \in EnvIds }

----------------------------------------------------------------------------
(* botTrapSystem                                                            *)

\* a cap that drops the newest records instead of the oldest
recordBotVisit_KeepsFirst(S, fault, i, reason) ==
  LET parsed == ParseItem(S.lsBotVisits, fault, <<>>)
  IN  IF parsed.threw THEN S
      ELSE
        LET botVisits == Append(parsed.value,
                                [ timestamp |-> S.now,
                                  userAgent |-> Environments[i].userAgent,
                                  reason |-> reason,
                                  fingerprint |-> ClientIdOf[i] ])
            kept == IF Len(botVisits) > MaxBotVisits
                      THEN SubSeq(botVisits, 1, MaxBotVisits)
                      ELSE botVisits
        IN  IF SetItemThrows(fault) THEN S
            ELSE [S EXCEPT !.lsBotVisits = JSONstringify(kept)]

recordBotVisit(S, fault, i, reason) ==
  LET parsed == ParseItem(S.lsBotVisits, fault, <<>>)
  IN  IF parsed.threw THEN S
      ELSE
        LET botVisits == Append(parsed.value,
                                [ timestamp |-> S.now,
                                  userAgent |-> Environments[i].userAgent,
                                  reason |-> reason,
                                  fingerprint |-> ClientIdOf[i] ])
            kept == IF Len(botVisits) > MaxBotVisits
                      THEN SubSeq(botVisits, Len(botVisits) - MaxBotVisits + 1, Len(botVisits))
                      ELSE botVisits
        IN  IF SetItemThrows(fault) THEN S
            ELSE [S EXCEPT !.lsBotVisits = JSONstringify(kept)]

\* the store after showConstructionPage; the document is replaced by the decoy
showConstructionPage(S, fault, i, reason) == recordBotVisit(S, fault, i, reason)

----------------------------------------------------------------------------
(* The suspicious-pattern score                                             *)

\* the eight totalChecks++ of hasTooManySuspiciousPatterns
totalChecks == 8

\* what collectFingerprintComponents resolves to, as far as the score reads it
collectFingerprintComponents(e) ==
  [ fonts         |-> e.fontsDetected,
    canvasHash    |-> IF e.canvasBlocked THEN "canvas_not_supported" ELSE "sha256",
    webglVendor   |-> IF e.webgl THEN "vendor" ELSE "null",
    webglRenderer |-> IF e.webgl THEN "renderer" ELSE "null" ]

\* the conditions of the eight suspiciousCount++ and of the one += 0.5; g is
\* what navigator and window hold

\* !fingerprint.fonts || fingerprint.fonts.length < 2
NoFontsCheck(fingerprint) == fingerprint.fonts = Undefined \/ fingerprint.fonts < MinFonts

\* fingerprint.canvasHash === "canvas_not_supported"
NoCanvasCheck(fingerprint) == fingerprint.canvasHash = "canvas_not_supported"

\* !fingerprint.webglVendor && !fingerprint.webglRenderer
NoWebGLCheck(fingerprint) ==
  fingerprint.webglVendor = "null" /\ fingerprint.webglRenderer = "null"

\* ua.includes('chrome') && typeof window.chrome === 'undefined'
ChromeUACheck(g) == includes(toLowerCase(g.userAgent), Str_chrome) /\ ~g.windowChrome

\* ua.includes('firefox') && typeof window.InstallTrigger === 'undefined'
FirefoxUACheck(g) == includes(toLowerCase(g.userAgent), Str_firefox) /\ ~g.installTrigger

\* !navigator.languages || navigator.languages.length === 0
SpoofedLanguagesCheck(g) == g.languagesLength = Undefined \/ g.languagesLength = 0

\* !window.localStorage || !window.sessionStorage
NoStorageCheck(g) == ~g.localStorage \/ ~g.sessionStorage

\* window.devicePixelRatio && window.devicePixelRatio % 1 === 0
PerfectConsistencyCheck(g) ==
  g.devicePixelRatio # 0 /\ g.devicePixelRatio % PixelRatioScale = 0

\* navigator.plugins && navigator.plugins.length === 0
AllPluginsDisabledCheck(g) == g.pluginsLength # Undefined /\ g.pluginsLength = 0

\* suspiciousCount++ is two half points, suspiciousCount += 0.5 is one
FullWeight(condition) == IF condition THEN 2 ELSE 0

\* a score that leaves the pixel-ratio check out
HalfWeight_Ignored(condition) == 0

HalfWeight(condition) == IF condition THEN 1 ELSE 0

\* suspiciousCount at the return, counted in half points
SuspiciousHalfPoints(fingerprint, g) ==
    FullWeight(NoFontsCheck(fingerprint))
  + FullWeight(NoCanvasCheck(fingerprint))
  + FullWeight(NoWebGLCheck(fingerprint))
  + FullWeight(ChromeUACheck(g))
  + FullWeight(FirefoxUACheck(g))
  + FullWeight(SpoofedLanguagesCheck(g))
  + FullWeight(NoStorageCheck(g))
  + HalfWeight(PerfectConsistencyCheck(g))
  + FullWeight(AllPluginsDisabledCheck(g))

\* a threshold of one half instead of 0.4
ExceedsRatio_Half(halfPoints) == halfPoints > totalChecks

\* (suspiciousCount / totalChecks) > 0.4, in integers:
\* halfPoints / (2 * totalChecks) > 4 / 10
ExceedsRatio(halfPoints) ==
  halfPoints * RatioThresholdDen > RatioThresholdNum * 2 * totalChecks

hasTooManySuspiciousPatterns(fingerprint, g) ==
  ExceedsRatio(SuspiciousHalfPoints(fingerprint, g))

\* the verdict on what browser i collects, computed once
TooSuspiciousOf ==
  [i \in EnvIds |->
     hasTooManySuspiciousPatterns(collectFingerprintComponents(Environments[i]),
                                  Environments[i])]

----------------------------------------------------------------------------
(* Initial state: a browser profile with empty localStorage, no page yet    *)

NoInput == [kind |-> "none"]

\* a call that has not returned, and one that returned v
NoVerdict == [returned |-> FALSE]

Returned(v) == [returned |-> TRUE, value |-> v]

\* handleFormSubmit has not run in this page
NoSubmit == [ran |-> FALSE]

\* the children of document.body that are the page's own
PageChildren == <<"main-content">>

\* the promise of detectAdBlocker: not created, pending, resolved, or pending
\* for ever after its timer callback threw
NoAdBlockerCall == [state |-> "none"]

\* interactionData before initializeCaptcha has run
NoTracker == [tracking |-> FALSE]

\* lastOp after a step that is no call of a blacklistSystem operation
NoOp == [op |-> "none"]

\* a browser profile whose localStorage holds what earlier pages left under
\* the three keys of the blacklist store, and no page yet
InitProfile(blacklist, attempts, earlier) ==
  /\ now = 0
  /\ lsBlacklist = blacklist
  /\ lsFailedAttempts = attempts
  /\ lsBotVisits = IF earlier = <<>> THEN NullItem ELSE JSONstringify(earlier)
  /\ lsFault = "none"
  /\ failedAttempts = <<>>
  /\ blacklistedIPs = <<>>
  /\ env = 0
  /\ pcInit = "none"
  /\ pc = "none"
  /\ stage = "none"
  /\ blCheck = "none"
  /\ suspicious = NoVerdict
  /\ armed = FALSE
  /\ tokenRequested = FALSE
  /\ shown = "none"
  /\ log = <<>>
  /\ lastOp = NoOp
  /\ steps = 0
  /\ lsSecureToken = NullItem
  /\ lsTokenTimestamp = NullItem
  /\ submit = NoSubmit
  /\ visits = 0
  /\ visitLog = earlier
  /\ tabs = <<>>
  /\ dynamicToken = ""
  /\ tracking = NoTracker
  /\ moves = <<>>
  /\ body = PageChildren
  /\ adBlocker = NoAdBlockerCall

\* a browser profile whose localStorage holds the records of earlier bot
\* visits, if any, and nothing else
InitBrowser(earlier) == InitProfile(NullItem, NullItem, earlier)

InitPage == InitBrowser(<<>>)

Init ==
  /\ InitPage
  /\ scoreInput = NoInput
  /\ scoreVerdict = NoVerdict
  /\ fnInput = NoInput
  /\ fnResult = NoVerdict

----------------------------------------------------------------------------
(* Time passes between handlers                                             *)

\* a millisecond, or the whole blacklist duration
TickAmounts == {1, blacklistDuration * MsPerSecond}

\* the advance of the clock from one Date.now() of a handler to its next: the
\* millisecond changes between the two reads, or it does not
Drifts == {0, 1}

NoDrift == {0}

Tick(d) ==
  /\ steps < MaxSteps
  /\ now' = now + d
  /\ steps' = steps + 1
  /\ lastOp' = NoOp
  /\ UNCHANGED <<lsBlacklist, lsFailedAttempts, lsBotVisits, failedAttempts, blacklistedIPs,
                 lsFault, env, pcInit, flowVars, scoreVars, moreVars>>

----------------------------------------------------------------------------
(* A page load: the scripts run again, so the objects they define are new,  *)
(* and both DOMContentLoaded handlers are pending                           *)

PageLoad(i) ==
  /\ steps < MaxSteps
  /\ steps' = steps + 1
  /\ env' = i
  /\ failedAttempts' = <<>>
  /\ blacklistedIPs' = <<>>
  /\ pcInit' = "pending"
  /\ pc' = "pending"
  /\ stage' = "none"
  /\ blCheck' = "none"
  /\ suspicious' = NoVerdict
  /\ armed' = FALSE
  /\ tokenRequested' = FALSE
  /\ shown' = "none"
  /\ log' = <<>>
  /\ dynamicToken' = ""
  /\ submit' = NoSubmit
  /\ lastOp' = NoOp
  /\ UNCHANGED <<now, lsBlacklist, lsFailedAttempts, lsBotVisits, lsFault, scoreVars, fnVars,
                 lsSecureToken, lsTokenTimestamp, visitVars, tabs, trackVars, domVars>>

\* document.addEventListener('DOMContentLoaded', function() { blacklistSystem.init(); })
BlacklistInit ==
  /\ pcInit = "pending"
  /\ Install(init(Store, lsFault))
  /\ pcInit' = "done"
  /\ lastOp' = [op |-> "init"]
  /\ UNCHANGED <<lsFault, env, flowVars, steps, scoreVars, moreVars>>

----------------------------------------------------------------------------
(* Calls of the operations of blacklistSystem by the page's handlers       *)

CallReasons == {"honeypot_filled", "no_interactions"}

\* the handlers of the page run once its DOMContentLoaded handlers have run
PageReady == env # 0 /\ pcInit = "done"

BlacklistReadFails == ParseItem(lsBlacklist, lsFault, <<>>).threw

CallRecordFailedAttempt(reason, d) ==
  /\ PageReady
  /\ steps < MaxSteps
  /\ steps' = steps + 1
  /\ LET clientId == ClientIdOf[env]
         S == recordFailedAttempt(Store, lsFault, clientId, reason, d)
     IN  /\ Install(S)
         /\ lastOp' = [ op |-> "recordFailedAttempt", clientId |-> clientId,
                        reason |-> reason,
                        removed |-> ~Has(S.failedAttempts, clientId) ]
  /\ UNCHANGED <<lsFault, env, pcInit, flowVars, scoreVars, moreVars>>

\* a lookup that also removes the expired entries it meets
CallIsClientBlacklisted_Cleans(clientId) ==
  /\ PageReady
  /\ lastOp' = [ op |-> "isClientBlacklisted", clientId |-> clientId,
                 result |-> isClientBlacklisted(Store, lsFault, clientId),
                 readFailed |-> BlacklistReadFails ]
  /\ Install(cleanupExpiredEntries(Store, lsFault))
  /\ UNCHANGED <<lsFault, env, pcInit, flowVars, steps, scoreVars, moreVars>>

CallIsClientBlacklisted(clientId) ==
  /\ PageReady
  /\ lastOp' = [ op |-> "isClientBlacklisted", clientId |-> clientId,
                 result |-> isClientBlacklisted(Store, lsFault, clientId),
                 readFailed |-> BlacklistReadFails ]
  /\ UNCHANGED <<storeVars, lsFault, env, pcInit, flowVars, steps, scoreVars, moreVars>>

CallLoadBlacklist ==
  /\ PageReady
  /\ Install(loadBlacklist(Store, lsFault))
  /\ lastOp' = [op |-> "loadBlacklist", readFailed |-> BlacklistReadFails]
  /\ UNCHANGED <<lsFault, env, pcInit, flowVars, steps, scoreVars, moreVars>>

CallCleanupExpiredEntries ==
  /\ PageReady
  /\ Install(cleanupExpiredEntries(Store, lsFault))
  /\ lastOp' = [op |-> "cleanupExpiredEntries"]
  /\ UNCHANGED <<lsFault, env, pcInit, flowVars, steps, scoreVars, moreVars>>

----------------------------------------------------------------------------
(* initializeCaptcha, one action per stretch between two suspensions        *)

\* up to the first await: checkBlacklist, then the decoy or the first collection
CaptchaStart(d) ==
  /\ pc = "pending"
  /\ LET r == checkBlacklist(Store, lsFault, env, d)
     IN  IF r.blocked
           THEN /\ Install(showConstructionPage(r.store, lsFault, env, r.reason))
                /\ blCheck' = r.reason
                /\ shown' = "construction"
                /\ pc' = "halted"
                /\ stage' = "none"
                /\ log' = log \o <<"checkBlacklist", "showConstructionPage">>
           ELSE /\ Install(r.store)
                /\ blCheck' = "passed"
                /\ shown' = shown
                /\ pc' = "collect1"
                /\ stage' = "canvas"
                /\ log' = log \o <<"checkBlacklist", "generateBrowserFingerprint">>
  /\ lastOp' = NoOp
  /\ UNCHANGED <<lsFault, env, pcInit, suspicious, armed, tokenRequested, steps,
                 scoreVars, moreVars>>

\* await generateCanvasFingerprint() resumes; detectFonts runs; getBatteryInfo starts
CanvasDone ==
  /\ pc \in {"collect1", "collect2"}
  /\ pcInit = "done"
  /\ stage = "canvas"
  /\ stage' = "battery"
  /\ log' = log \o <<"generateCanvasFingerprint">>
  /\ lastOp' = NoOp
  /\ UNCHANGED <<storeVars, lsFault, env, pcInit, pc, blCheck, suspicious, armed,
                 tokenRequested, shown, steps, scoreVars, moreVars>>

\* await getBatteryInfo() resumes; the probes up to detectAdBlocker run
BatteryDone ==
  /\ pc \in {"collect1", "collect2"}
  /\ stage = "battery"
  /\ stage' = "adblock"
  /\ log' = log \o <<"getBatteryInfo">>
  /\ lastOp' = NoOp
  /\ UNCHANGED <<storeVars, lsFault, env, pcInit, pc, blCheck, suspicious, armed,
                 tokenRequested, shown, steps, scoreVars, moreVars>>

\* the ad-blocker timer of the first collection fires; generateBrowserFingerprint
\* goes on to its digest
AdBlockDone ==
  /\ pc = "collect1"
  /\ stage = "adblock"
  /\ pc' = "hash1"
  /\ stage' = "none"
  /\ log' = log \o <<"detectAdBlocker">>
  /\ lastOp' = NoOp
  /\ UNCHANGED <<storeVars, lsFault, env, pcInit, blCheck, suspicious, armed,
                 tokenRequested, shown, steps, scoreVars, moreVars>>

\* a second collection whose result is used before its awaits have resumed
HashDone_NoWait ==
  /\ pc = "hash1"
  /\ pc' = "collect2"
  /\ stage' = "adblock"
  /\ log' = log \o <<"collectFingerprintComponents">>
  /\ lastOp' = NoOp
  /\ UNCHANGED <<storeVars, lsFault, env, pcInit, blCheck, suspicious, armed,
                 tokenRequested, shown, steps, scoreVars, moreVars>>

\* await generateBrowserFingerprint() resumes; the second collection starts
HashDone ==
  /\ pc = "hash1"
  /\ pc' = "collect2"
  /\ stage' = "canvas"
  /\ log' = log \o <<"collectFingerprintComponents">>
  /\ lastOp' = NoOp
  /\ UNCHANGED <<storeVars, lsFault, env, pcInit, blCheck, suspicious, armed,
                 tokenRequested, shown, steps, scoreVars, moreVars>>

\* a flow whose too-suspicious branch does not return
Score_ArmsAnyway(d) ==
  /\ pc = "collect2"
  /\ stage = "adblock"
  /\ stage' = "none"
  /\ LET verdict == TooSuspiciousOf[env]
     IN  /\ suspicious' = Returned(verdict)
         /\ IF verdict
              THEN /\ Install(showConstructionPage(
                                recordFailedAttempt(Store, lsFault, ClientIdOf[env],
                                                    "suspicious_fingerprint", d),
                                lsFault, env, "suspicious_browser"))
                   /\ shown' = "construction"
                   /\ pc' = "halted"
                   /\ log' = log \o <<"detectAdBlocker", "hasTooManySuspiciousPatterns",
                                      "recordFailedAttempt", "showConstructionPage">>
                   /\ armed' = TRUE
                   /\ tokenRequested' = TRUE
              ELSE /\ armed' = TRUE
                   /\ tokenRequested' = TRUE
                   /\ pc' = "armed"
                   /\ log' = log \o <<"detectAdBlocker", "hasTooManySuspiciousPatterns",
                                      "addEventListener", "generateSecureToken">>
                   /\ UNCHANGED <<storeVars, shown>>
  /\ lastOp' = NoOp
  /\ UNCHANGED <<lsFault, env, pcInit, blCheck, steps, scoreVars, moreVars>>

\* the ad-blocker timer of the second collection fires; await
\* collectFingerprintComponents() resumes with the score and what follows it
Score(d) ==
  /\ pc = "collect2"
  /\ stage = "adblock"
  /\ stage' = "none"
  /\ LET verdict == TooSuspiciousOf[env]
     IN  /\ suspicious' = Returned(verdict)
         /\ IF verdict
              THEN /\ Install(showConstructionPage(
                                recordFailedAttempt(Store, lsFault, ClientIdOf[env],
                                                    "suspicious_fingerprint", d),
                                lsFault, env, "suspicious_browser"))
                   /\ shown' = "construction"
                   /\ pc' = "halted"
                   /\ log' = log \o <<"detectAdBlocker", "hasTooManySuspiciousPatterns",
                                      "recordFailedAttempt", "showConstructionPage">>
                   /\ UNCHANGED <<armed, tokenRequested>>
              ELSE /\ armed' = TRUE
                   /\ tokenRequested' = TRUE
                   /\ pc' = "armed"
                   /\ log' = log \o <<"detectAdBlocker", "hasTooManySuspiciousPatterns",
                                      "addEventListener", "generateSecureToken">>
                   /\ UNCHANGED <<storeVars, shown>>
  /\ lastOp' = NoOp
  /\ UNCHANGED <<lsFault, env, pcInit, blCheck, steps, scoreVars, moreVars>>

----------------------------------------------------------------------------
(* One call of hasTooManySuspiciousPatterns on any fingerprint and globals  *)

ScoreUserAgents == {UA_Chrome, UA_Firefox, UA_Spoofed, UA_Kaspersky}

ScoreInputs ==
  [ kind : {"call"},
    fingerprint : [ fonts : {Undefined, 1, 2},
                    canvasHash : {"canvas_not_supported", "sha256"},
                    webglVendor : {"null", "vendor"},
                    webglRenderer : {"null", "renderer"} ],
    globals : [ userAgent : ScoreUserAgents,
                windowChrome : BOOLEAN,
                installTrigger : BOOLEAN,
                languagesLength : {Undefined, 0, 1},
                localStorage : BOOLEAN,
                sessionStorage : BOOLEAN,
                devicePixelRatio : {0, 100, 150},
                pluginsLength : {Undefined, 0, 2} ] ]

\* the state before one call of the score on any input
InitScore ==
  /\ InitPage
  /\ scoreInput \in ScoreInputs
  /\ scoreVerdict = NoVerdict
  /\ fnInput = NoInput
  /\ fnResult = NoVerdict

EvaluateScore ==
  /\ scoreInput # NoInput
  /\ scoreVerdict = NoVerdict
  /\ scoreVerdict' = Returned(hasTooManySuspiciousPatterns(scoreInput.fingerprint,
                                                          scoreInput.globals))
  /\ UNCHANGED <<storeVars, lsFault, env, pcInit, flowVars, lastOp, steps, scoreInput, moreVars>>

----------------------------------------------------------------------------
(* Specifications                                                           *)

\* localStorage starts or stops failing, as when the user blocks site data or
\* the quota is used up
InjectFault(fault) ==
  /\ lsFault # fault
  /\ lsFault' = fault
  /\ lastOp' = NoOp
  /\ UNCHANGED <<storeVars, env, pcInit, flowVars, steps, scoreVars, moreVars>>

\* another script or the user overwrites the item with text that is no JSON
CorruptBlacklist ==
  /\ lsBlacklist # MalformedItem
  /\ lsBlacklist' = MalformedItem
  /\ lastOp' = NoOp
  /\ UNCHANGED <<now, lsFailedAttempts, lsBotVisits, failedAttempts, blacklistedIPs, lsFault,
                 env, pcInit, flowVars, steps, scoreVars, moreVars>>

\* the blacklist store: page loads of two browsers, time, and calls of its
\* operations
StoreEnvIds == {1, 2}

Next ==
  \/ \E d \in TickAmounts : Tick(d)
  \/ \E i \in StoreEnvIds : PageLoad(i)
  \/ BlacklistInit
  \/ \E reason \in CallReasons, d \in Drifts : CallRecordFailedAttempt(reason, d)
  \/ \E clientId \in ClientIds : CallIsClientBlacklisted(clientId)
  \/ CallLoadBlacklist
  \/ CallCleanupExpiredEntries

Spec == Init /\ [][Next]_vars

\* the blacklist store of one browser with failing localStorage
FaultEnvIds == {1}

NextFault ==
  \/ \E d \in TickAmounts : Tick(d)
  \/ \E i \in FaultEnvIds : PageLoad(i)
  \/ BlacklistInit
  \/ \E reason \in CallReasons, d \in NoDrift : CallRecordFailedAttempt(reason, d)
  \/ \E clientId \in {ClientIdOf[i] : i \in FaultEnvIds} : CallIsClientBlacklisted(clientId)
  \/ CallLoadBlacklist
  \/ CallCleanupExpiredEntries
  \/ \E fault \in {"none", "getItem", "setItem"} : InjectFault(fault)
  \/ CorruptBlacklist

SpecFault == Init /\ [][NextFault]_vars

\* the page-load flow of initializeCaptcha in every browser, over the blacklist
\* store
NextFlow ==
  \/ \E i \in EnvIds : PageLoad(i)
  \/ BlacklistInit
  \/ \E d \in NoDrift : CallRecordFailedAttempt("honeypot_filled", d)
  \/ \E d \in NoDrift : CaptchaStart(d)
  \/ CanvasDone
  \/ BatteryDone
  \/ AdBlockDone
  \/ HashDone
  \/ \E d \in NoDrift : Score(d)

SpecFlow == Init /\ [][NextFlow]_vars

\* the score as a function of its input
NextScore == EvaluateScore

SpecScore == InitScore /\ [][NextScore]_vars
----------------------------------------------------------------------------
(* analyzeInteractions                                                      *)

\* samples in the movementPatterns of one call
MaxSamples == 6

\* timeDiff > 2000, in ms
MinElapsed == 2000

\* totalInteractions < 3
MinInteractions == 3

\* interactionData.movementPatterns.length > 5
MinPatterns == 5

\* the literal 0.3, as the fraction 3/10
UniformRatioNum == 3

UniformRatioDen == 10

\* a JavaScript number: NaN, or the value v
NaN == [nan |-> TRUE]

Num(v) == [nan |-> FALSE, v |-> v]

\* a === b on numbers: NaN equals nothing, itself included
StrictEquals(a, b) == ~a.nan /\ ~b.nan /\ a.v = b.v

\* unnaturalMovements after the loop: prevVelocity and prevDirection are null
\* at the first pattern, and null === number is false
RECURSIVE UnnaturalMovements(_, _)
UnnaturalMovements(patterns, i) ==
  IF i > Len(patterns) THEN 0
  ELSE (IF i > 1 /\ StrictEquals(patterns[i - 1].velocity, patterns[i].velocity)
          THEN 1 ELSE 0)
     + (IF i > 1 /\ StrictEquals(patterns[i - 1].direction, patterns[i].direction)
          THEN 1 ELSE 0)
     + UnnaturalMovements(patterns, i + 1)

\* unnaturalMovements / movementPatterns.length > 0.3, in integers
TooUniform(patterns) ==
  UnnaturalMovements(patterns, 1) * UniformRatioDen > UniformRatioNum * Len(patterns)

\* a length test that needs one sample more
EnoughPatterns_OneMore(patterns) == Len(patterns) > MinPatterns + 1

\* interactionData.movementPatterns.length > 5
EnoughPatterns(patterns) == Len(patterns) > MinPatterns

\* t is what Date.now() returns when the function runs
analyzeInteractions(interactionData, t) ==
  LET timeDiff          == t - interactionData.startTime
      totalInteractions == interactionData.mouseMoves + interactionData.mouseClicks
                           + interactionData.keyPresses + interactionData.touchEvents
  IN  IF timeDiff > MinElapsed /\ totalInteractions < MinInteractions THEN FALSE
      ELSE IF EnoughPatterns(interactionData.movementPatterns)
                /\ TooUniform(interactionData.movementPatterns) THEN FALSE
      ELSE TRUE

\* what one mousemove can add to movementPatterns: a steady pointer, a turn, a
\* change of speed, and an event without coordinates
PatternSamples ==
  { [velocity |-> Num(1), direction |-> Num(0)],
    [velocity |-> Num(1), direction |-> Num(1)],
    [velocity |-> Num(2), direction |-> Num(0)],
    [velocity |-> NaN,    direction |-> NaN] }

PatternSeqs == UNION { [1..n -> PatternSamples] : n \in 0..MaxSamples }

InteractionInputs ==
  { in \in [ kind : {"analyzeInteractions"},
             data : [ mouseMoves : {0, MaxSamples + 1}, mouseClicks : {0},
                      keyPresses : {0, 2}, touchEvents : {0},
                      movementPatterns : PatternSeqs, startTime : {0} ],
             now : {MinElapsed, MinElapsed + 1} ] :
      Len(in.data.movementPatterns) < in.data.mouseMoves \/ in.data.movementPatterns = <<>> }

InitInteractions ==
  /\ InitPage
  /\ scoreInput = NoInput
  /\ scoreVerdict = NoVerdict
  /\ fnInput \in InteractionInputs
  /\ fnResult = NoVerdict

CallAnalyzeInteractions ==
  /\ fnInput.kind = "analyzeInteractions"
  /\ fnResult = NoVerdict
  /\ fnResult' = Returned(analyzeInteractions(fnInput.data, fnInput.now))
  /\ UNCHANGED <<storeVars, lsFault, env, pcInit, flowVars, lastOp, steps, scoreVars,
                 fnInput, submitVars, visitVars, tabs, trackVars, domVars>>

NextInteractions == CallAnalyzeInteractions

SpecInteractions == InitInteractions /\ [][NextInteractions]_vars

----------------------------------------------------------------------------
(* handleFormSubmit                                                         *)

Str_HeadlessChrome ==
  <<"H","e","a","d","l","e","s","s","C","h","r","o","m","e">>

Str_PhantomJS ==
  <<"P","h","a","n","t","o","m","J","S">>

\* a localStorage item that holds a string
TextItem(s) == [kind |-> "text", value |-> s]

\* interactionData at the submit and the time since startTime: nothing tracked
\* for over two seconds, a pointer moved by hand, a pointer moved at one speed
\* along one line
IdleInteraction ==
  [ mouseMoves |-> 0, mouseClicks |-> 0, keyPresses |-> 0, touchEvents |-> 0,
    elapsed |-> MinElapsed + 1, movementPatterns |-> <<>> ]

HandInteraction ==
  [ mouseMoves |-> 3, mouseClicks |-> 1, keyPresses |-> 0, touchEvents |-> 0,
    elapsed |-> MinElapsed + 1,
    movementPatterns |-> << [velocity |-> Num(1), direction |-> Num(0)],
                            [velocity |-> Num(2), direction |-> Num(1)] >> ]

SteadyInteraction ==
  [ mouseMoves |-> 7, mouseClicks |-> 1, keyPresses |-> 0, touchEvents |-> 0,
    elapsed |-> 1,
    movementPatterns |-> [i \in 1..6 |-> [velocity |-> Num(1), direction |-> Num(0)]] ]

\* what a submit reads besides the browser and #dynamic-token: the widget's
\* response, the honeypot fields, the tracker, navigator.webdriver and
\* verification.environmentVerified
SubmitInputs ==
  [ responseLength : {0, 1},
    honeypotFilled : BOOLEAN,
    interaction : {IdleInteraction, HandInteraction, SteadyInteraction},
    webdriver : BOOLEAN,
    environmentVerified : BOOLEAN ]

\* analyzeInteractions(interactionData) at time t
HumanInteractions(in, t) ==
  analyzeInteractions(
    [ mouseMoves |-> in.interaction.mouseMoves, mouseClicks |-> in.interaction.mouseClicks,
      keyPresses |-> in.interaction.keyPresses, touchEvents |-> in.interaction.touchEvents,
      movementPatterns |-> in.interaction.movementPatterns, startTime |-> t - in.interaction.elapsed ], t)

\* /HeadlessChrome/.test(ua) || /PhantomJS/.test(ua) in each browser, computed
\* once
HeadlessUserAgentOf ==
  [i \in EnvIds |-> \/ includes(Environments[i].userAgent, Str_HeadlessChrome)
                    \/ includes(Environments[i].userAgent, Str_PhantomJS)]

\* navigator.webdriver || /HeadlessChrome/.test(ua) || /PhantomJS/.test(ua)
IsHeadless(in, i) == in.webdriver \/ HeadlessUserAgentOf[i]

\* isHeadless || !hasPlugins || !hasLanguages
AutomationDetected(in, i) ==
  \/ IsHeadless(in, i)
  \/ ~(Environments[i].pluginsLength > 0)
  \/ ~(Environments[i].languagesLength > 0)

\* a handler without the last of its checks
FirstFailure_NoEnvironmentCheck(in, i, t) ==
  IF in.responseLength < 1 THEN "recaptcha_empty"
  ELSE IF in.honeypotFilled THEN "honeypot_filled"
  ELSE IF ~HumanInteractions(in, t) THEN "no_interactions"
  ELSE IF Environments[i].pluginsLength = Undefined THEN "threw"
  ELSE IF AutomationDetected(in, i) THEN "automation_detected"
  ELSE "none"

\* the first check of handleFormSubmit that stops it, in the order of the
\* code; navigator.plugins.length throws when navigator.plugins is undefined
FirstFailure(in, i, t) ==
  IF in.responseLength < 1 THEN "recaptcha_empty"
  ELSE IF in.honeypotFilled THEN "honeypot_filled"
  ELSE IF ~HumanInteractions(in, t) THEN "no_interactions"
  ELSE IF Environments[i].pluginsLength = Undefined THEN "threw"
  ELSE IF AutomationDetected(in, i) THEN "automation_detected"
  ELSE IF ~in.environmentVerified THEN "environment_verification_failed"
  ELSE "none"

\* the argument of showConstructionPage after each recorded reason
DecoyReason(failure) ==
  IF failure = "honeypot_filled" THEN "honeypot_triggered"
  ELSE IF failure = "no_interactions" THEN "non_human_pattern"
  ELSE failure

\* one invocation of handleFormSubmit in browser i while #dynamic-token holds
\* token: the store after it, the two token items after it, and what it did
handleFormSubmit(S, fault, i, in, items, token) ==
  LET failure == FirstFailure(in, i, S.now)
      quiet   == [ store |-> S, items |-> items, recorded |-> "none", decoy |-> FALSE,
                   message |-> "none", wroteToken |-> FALSE, scheduled |-> FALSE ]
  IN  IF failure = "recaptcha_empty"
        THEN [quiet EXCEPT !.message = "This field is required."]
      ELSE IF failure = "threw"
        THEN quiet
      ELSE IF failure # "none"
        THEN [ store |-> showConstructionPage(
                           recordFailedAttempt(S, fault, ClientIdOf[i], failure, 0),
                           fault, i, DecoyReason(failure)),
               items |-> items, recorded |-> failure, decoy |-> TRUE, message |-> "none",
               wroteToken |-> FALSE, scheduled |-> FALSE ]
      ELSE IF Environments[i].localStorage /\ SetItemThrows(fault)
        THEN [ store |-> recordFailedAttempt(S, fault, ClientIdOf[i], "storage_unavailable", 0),
               items |-> items, recorded |-> "storage_unavailable", decoy |-> FALSE,
               message |-> "Session storage unavailable.",
               wroteToken |-> FALSE, scheduled |-> FALSE ]
      ELSE [ store |-> S,
             items |-> IF Environments[i].localStorage
                         THEN [ secureToken |-> TextItem(token),
                                tokenTimestamp |-> TextItem(NatToString(S.now)) ]
                         ELSE items,
             recorded |-> "none", decoy |-> FALSE, message |-> "none",
             wroteToken |-> Environments[i].localStorage, scheduled |-> TRUE ]

\* a submit event on #recaptcha-form, whose listener initializeCaptcha
\* registered; after the construction page replaced the document there is no
\* form to submit
FormSubmit(in) ==
  /\ armed
  /\ shown = "none"
  /\ steps < MaxSteps
  /\ steps' = steps + 1
  /\ LET r == handleFormSubmit(Store, lsFault, env, in,
                               [ secureToken |-> lsSecureToken,
                                 tokenTimestamp |-> lsTokenTimestamp ],
                               dynamicToken)
     IN  /\ Install(r.store)
         /\ lsSecureToken' = r.items.secureToken
         /\ lsTokenTimestamp' = r.items.tokenTimestamp
         /\ shown' = IF r.decoy THEN "construction" ELSE shown
         /\ submit' = [ ran |-> TRUE, in |-> in, at |-> now, token |-> dynamicToken,
                        recorded |-> r.recorded, decoy |-> r.decoy, message |-> r.message,
                        wroteToken |-> r.wroteToken, scheduled |-> r.scheduled,
                        submitted |-> FALSE ]
  /\ lastOp' = NoOp
  /\ UNCHANGED <<lsFault, env, pcInit, pc, stage, blCheck, suspicious, armed, tokenRequested,
                 log, scoreVars, fnVars, visitVars, tabs, dynamicToken, trackVars, domVars>>

\* the token generateSecureToken resolves to in a page load
MintedToken == "tokenA"

\* the digest of generateSecureToken resolves and its then-callback stores the
\* token in #dynamic-token; after the decoy replaced the document there is no
\* such field
TokenMinted ==
  /\ tokenRequested
  /\ shown = "none"
  /\ dynamicToken # MintedToken
  /\ dynamicToken' = MintedToken
  /\ lastOp' = NoOp
  /\ UNCHANGED <<storeVars, lsFault, env, pcInit, flowVars, steps, scoreVars, fnVars,
                 lsSecureToken, lsTokenTimestamp, submit, visitVars, tabs, trackVars, domVars>>

\* the timer of a passing submit fires 1500 ms later: form.submit() posts the
\* form and the browser leaves the page for data.php
FormSubmitTimer ==
  /\ submit.ran
  /\ submit.scheduled
  /\ ~submit.submitted
  /\ shown = "none"
  /\ submit' = [submit EXCEPT !.submitted = TRUE]
  /\ shown' = "data.php"
  /\ lastOp' = NoOp
  /\ UNCHANGED <<storeVars, lsFault, env, pcInit, pc, stage, blCheck, suspicious, armed,
                 tokenRequested, log, steps, scoreVars, fnVars, lsSecureToken,
                 lsTokenTimestamp, dynamicToken, visitVars, tabs, trackVars, domVars>>

\* a desktop browser that passes both gates, its page-load flow, its submits,
\* and localStorage.setItem failing or not
SubmitEnvIds == {1}

NextSubmit ==
  \/ \E i \in SubmitEnvIds : PageLoad(i)
  \/ BlacklistInit
  \/ \E d \in NoDrift : CaptchaStart(d)
  \/ CanvasDone
  \/ BatteryDone
  \/ AdBlockDone
  \/ HashDone
  \/ \E d \in NoDrift : Score(d)
  \/ TokenMinted
  \/ \E in \in SubmitInputs : FormSubmit(in)
  \/ FormSubmitTimer
  \/ \E fault \in {"none", "setItem"} : InjectFault(fault)

SpecSubmit == Init /\ [][NextSubmit]_vars

----------------------------------------------------------------------------
(* redirectToProtectedContent                                               *)

\* 10 minutes in milliseconds
MaxTokenAge == 600000

\* Date.now() at the redirect: milliseconds since 1970, far past ten minutes
RedirectNow == 2000000

\* the value of the leading decimal digits of s
RECURSIVE DigitsValue(_, _, _)
DigitsValue(s, i, acc) ==
  IF i > Len(s) \/ ~(\E d \in 1..Len(Digits) : Digits[d] = s[i]) THEN acc
  ELSE DigitsValue(s, i + 1, acc * 10 + IndexOf(Digits, s[i]) - 1)

\* parseInt(s) for a string without leading blanks, sign or 0x: the number its
\* leading digits spell, NaN when it has none
parseInt(s) ==
  IF Len(s) = 0 \/ ~(\E d \in 1..Len(Digits) : Digits[d] = s[1]) THEN NaN
  ELSE Num(DigitsValue(s, 1, 0))

\* localStorage.getItem(key) || '0' for the timestamp item
TimestampText(item) ==
  IF item.kind = "null" \/ Len(item.value) = 0 THEN <<"0">> ELSE item.value

\* a condition on the stored token that never compares it with the argument
TokenRejected_MissingOnly(item, token) ==
  item.kind = "null" \/ item.value = ""

\* !storedToken || storedToken !== token
TokenRejected(item, token) ==
  \/ item.kind = "null"
  \/ item.value = ""
  \/ item.value # token

\* Date.now() - tokenTimestamp > 600000, false when tokenTimestamp is NaN
TokenExpired(timestamp, t) ==
  /\ ~timestamp.nan
  /\ t - timestamp.v > MaxTokenAge

\* one call of redirectToProtectedContent(token): what it did
redirectToProtectedContent(items, fault, token, t) ==
  IF fault = "getItem"
    THEN [ threw |-> TRUE, navigated |-> FALSE, error |-> "none" ]
  ELSE IF TokenRejected(items.secureToken, token)
    THEN [ threw |-> FALSE, navigated |-> FALSE,
           error |-> "Invalid security token. Please try again." ]
  ELSE IF TokenExpired(parseInt(TimestampText(items.tokenTimestamp)), t)
    THEN [ threw |-> FALSE, navigated |-> FALSE,
           error |-> "Security token expired. Please try again." ]
  ELSE [ threw |-> FALSE, navigated |-> TRUE, error |-> "none" ]

\* Date.now().toString() as handleFormSubmit stored it, or no item
WrittenTimestamp(written) ==
  IF written.present THEN TextItem(NatToString(written.at)) ELSE NullItem

\* the items as handleFormSubmit leaves them (a token, '' when #dynamic-token
\* is empty, and the Date.now() of the write) or absent, the argument of the
\* call, and localStorage working or throwing
RedirectInputs ==
  [ kind : {"redirect"},
    secureToken : {NullItem, TextItem(""), TextItem("tokenA"), TextItem("tokenB")},
    written : {[present |-> FALSE]} \cup
              { [present |-> TRUE, at |-> t] :
                  t \in { 0, RedirectNow - MaxTokenAge - 1, RedirectNow - MaxTokenAge,
                          RedirectNow - 1, RedirectNow, RedirectNow + 1 } },
    token : {"", "tokenA", "tokenB"},
    fault : {"none", "getItem"},
    now : {RedirectNow} ]

InitRedirect ==
  /\ InitPage
  /\ scoreInput = NoInput
  /\ scoreVerdict = NoVerdict
  /\ fnInput \in RedirectInputs
  /\ fnResult = NoVerdict

CallRedirect ==
  /\ fnInput.kind = "redirect"
  /\ fnResult = NoVerdict
  /\ fnResult' = Returned(redirectToProtectedContent(
                            [ secureToken |-> fnInput.secureToken,
                              tokenTimestamp |-> WrittenTimestamp(fnInput.written) ],
                            fnInput.fault, fnInput.token, fnInput.now))
  /\ UNCHANGED <<storeVars, lsFault, env, pcInit, flowVars, lastOp, steps, scoreVars,
                 fnInput, submitVars, visitVars, tabs, trackVars, domVars>>

NextRedirect == CallRedirect

SpecRedirect == InitRedirect /\ [][NextRedirect]_vars

----------------------------------------------------------------------------
(* collectFingerprintComponents when probes throw                          *)

\* the probes of collectFingerprintComponents in the order it runs them; the
\* ad-blocker probe can throw while it sets up its element or in its timer
ProbeOrder ==
  << "codecs", "canvas", "fonts", "battery", "connection", "plugins", "benchmark",
     "webgl", "adBlockerSetup", "adBlockerTimer" >>

\* the probes whose body is inside a try with a catch that returns a value
CaughtProbes == {"canvas", "battery", "connection", "plugins", "webgl"}

\* what the catch of a probe leaves in the components record
Sentinel(probe) ==
  IF probe = "canvas" THEN "canvas_not_supported"
  ELSE IF probe = "plugins" THEN "[]"
  ELSE "null"

\* the collection from its k-th probe on, with the probes of `throwing` throwing
RECURSIVE CollectFrom(_, _, _, _)
CollectFrom(throwing, caught, k, components) ==
  IF k > Len(ProbeOrder)
    THEN [outcome |-> "resolved", components |-> components]
  ELSE LET probe == ProbeOrder[k]
       IN  IF probe \notin throwing
             THEN CollectFrom(throwing, caught, k + 1, [components EXCEPT ![probe] = "value"])
           ELSE IF probe \in caught
             THEN CollectFrom(throwing, caught, k + 1,
                              [components EXCEPT ![probe] = Sentinel(probe)])
           ELSE IF probe = "adBlockerTimer"
             THEN [outcome |-> "pending", components |-> components]
           ELSE [outcome |-> "rejected", components |-> components]

\* one call of collectFingerprintComponents() from initializeCaptcha: how its
\* promise settles, and the record built by then
collectWithThrowing(throwing) ==
  CollectFrom(throwing, CaughtProbes, 1,
              [p \in {ProbeOrder[k] : k \in 1..Len(ProbeOrder)} |-> "unset"])

CollectInputs ==
  [ kind : {"collect"},
    throwing : SUBSET {ProbeOrder[k] : k \in 1..Len(ProbeOrder)} ]

InitCollect ==
  /\ InitPage
  /\ scoreInput = NoInput
  /\ scoreVerdict = NoVerdict
  /\ fnInput \in CollectInputs
  /\ fnResult = NoVerdict

CallCollect ==
  /\ fnInput.kind = "collect"
  /\ fnResult = NoVerdict
  /\ fnResult' = Returned(collectWithThrowing(fnInput.throwing))
  /\ UNCHANGED <<storeVars, lsFault, env, pcInit, flowVars, lastOp, steps, scoreVars,
                 fnInput, submitVars, visitVars, tabs, trackVars, domVars>>

NextCollect == CallCollect

SpecCollect == InitCollect /\ [][NextCollect]_vars

----------------------------------------------------------------------------
(* recordBotVisit on a profile that has been visited before                 *)

\* visits of the model
MaxVisits == 4

\* visits recorded before the model starts, two short of the cap
PriorVisits == 98

VisitEnvIds == {2}

VisitReasons == {"known_bot"}

\* the record recordBotVisit pushes in browser i at time t
BotVisitRecord(i, reason, t) ==
  [ timestamp |-> t, userAgent |-> Environments[i].userAgent, reason |-> reason,
    fingerprint |-> ClientIdOf[i] ]

\* what PriorVisits visits of a crawler, one millisecond apart, left in storage
PriorRecords ==
  [k \in 1..PriorVisits |-> BotVisitRecord(2, "known_bot", k - PriorVisits - 1)]

InitVisits ==
  /\ InitBrowser(PriorRecords)
  /\ scoreInput = NoInput
  /\ scoreVerdict = NoVerdict
  /\ fnInput = NoInput
  /\ fnResult = NoVerdict

\* one call of botTrapSystem.recordBotVisit(reason) on the page
CallRecordBotVisit(reason) ==
  /\ PageReady
  /\ visits < MaxVisits
  /\ visits' = visits + 1
  /\ Install(recordBotVisit(Store, lsFault, env, reason))
  /\ visitLog' = Append(visitLog, BotVisitRecord(env, reason, now))
  /\ lastOp' = [op |-> "recordBotVisit"]
  /\ UNCHANGED <<lsFault, env, pcInit, flowVars, steps, scoreVars, fnVars, submitVars, tabs, trackVars, domVars>>

NextVisits ==
  \/ \E i \in VisitEnvIds : PageLoad(i)
  \/ BlacklistInit
  \/ Tick(1)
  \/ \E reason \in VisitReasons : CallRecordBotVisit(reason)

SpecVisits == InitVisits /\ [][NextVisits]_vars

----------------------------------------------------------------------------
(* detectFonts                                                              *)

fontList ==
  << "Arial", "Arial Black", "Arial Narrow", "Calibri", "Cambria",
     "Cambria Math", "Comic Sans MS", "Consolas", "Courier", "Courier New",
     "Georgia", "Helvetica", "Impact", "Lucida Console", "Lucida Sans Unicode",
     "Microsoft Sans Serif", "Palatino Linotype", "Tahoma", "Times",
     "Times New Roman", "Trebuchet MS", "Verdana", "Webdings" >>

baseFonts == <<"monospace", "sans-serif", "serif">>

\* offsetWidth and offsetHeight of the test string in a face: three widths
\* and two heights shared among the candidate fonts
FontBox(font) ==
  LET k == IndexOf(fontList, font)
  IN  <<500 + 10 * (k % 3), 80 + 4 * (k % 2)>>

\* the boxes a generic family can have; some are boxes of candidate fonts
BaseBoxes == {<<500, 80>>, <<510, 84>>, <<530, 80>>}

\* the box of the span with fontFamily '"font", baseFont' in rendering r: the
\* font's when it is installed, else the fallback's
TestBox(r, font, baseFont) ==
  IF font \in r.installed THEN FontBox(font) ELSE r.baseBox[baseFont]

\* a comparison of the widths alone
SameMetrics_WidthOnly(r, font, baseFont) ==
  r.baseBox[baseFont][1] = TestBox(r, font, baseFont)[1]

\* baseWidth === testWidth && baseHeight === testHeight
SameMetrics(r, font, baseFont) ==
  /\ r.baseBox[baseFont][1] = TestBox(r, font, baseFont)[1]
  /\ r.baseBox[baseFont][2] = TestBox(r, font, baseFont)[2]

\* the inner loop from its k-th baseline on: detected stays true until one
\* baseline gives the same metrics, then the loop breaks
RECURSIVE DetectedFrom(_, _, _)
DetectedFrom(r, font, k) ==
  IF k > Len(baseFonts) THEN TRUE
  ELSE IF SameMetrics(r, font, baseFonts[k]) THEN FALSE
  ELSE DetectedFrom(r, font, k + 1)

detectFonts(r) == SelectSeq(fontList, LAMBDA font : DetectedFrom(r, font, 1))

\* the fonts whose presence varies on its own; the others come as a block
VariedFonts == {"Arial", "Courier New", "Webdings"}

FontInputs ==
  { [ kind |-> "detectFonts",
      installed |-> some \cup (IF rest THEN {fontList[k] : k \in 1..Len(fontList)} \ VariedFonts
                                       ELSE {}),
      baseBox |-> box ] :
      some \in SUBSET VariedFonts, rest \in BOOLEAN,
      box \in [{baseFonts[k] : k \in 1..Len(baseFonts)} -> BaseBoxes] }

InitFonts ==
  /\ InitPage
  /\ scoreInput = NoInput
  /\ scoreVerdict = NoVerdict
  /\ fnInput \in FontInputs
  /\ fnResult = NoVerdict

CallDetectFonts ==
  /\ fnInput.kind = "detectFonts"
  /\ fnResult = NoVerdict
  /\ fnResult' = Returned(detectFonts(fnInput))
  /\ UNCHANGED <<storeVars, lsFault, env, pcInit, flowVars, lastOp, steps, scoreVars,
                 fnInput, submitVars, visitVars, tabs, trackVars, domVars>>

NextFonts == CallDetectFonts

SpecFonts == InitFonts /\ [][NextFonts]_vars

----------------------------------------------------------------------------
(* Two tabs of one browser on the same origin: one localStorage, one        *)
(* blacklistSystem object per tab                                           *)

TabIds == {1, 2}

\* the browser of both tabs
TabEnv == 1

\* the in-memory fields of the blacklistSystem of a tab
TabMemory(S) == [failedAttempts |-> S.failedAttempts, blacklistedIPs |-> S.blacklistedIPs]

\* the store as the blacklistSystem of a tab sees it
TabStore(memory) ==
  [ Store EXCEPT !.failedAttempts = memory.failedAttempts,
                 !.blacklistedIPs = memory.blacklistedIPs ]

\* what a handler of a tab leaves: the shared items and clock of S, and the
\* tab's own fields in tabs
InstallTab(t, S) ==
  /\ now' = S.now
  /\ lsBlacklist' = S.lsBlacklist
  /\ lsFailedAttempts' = S.lsFailedAttempts
  /\ lsBotVisits' = S.lsBotVisits
  /\ tabs' = Put(tabs, t, TabMemory(S))
  /\ UNCHANGED <<failedAttempts, blacklistedIPs>>

\* tab t loads the page: its script defines a new blacklistSystem and its
\* DOMContentLoaded handler runs blacklistSystem.init
TabLoad(t) ==
  /\ steps < MaxSteps
  /\ steps' = steps + 1
  /\ InstallTab(t, init(TabStore([failedAttempts |-> <<>>, blacklistedIPs |-> <<>>]), lsFault))
  /\ lastOp' = [op |-> "init", tab |-> t]
  /\ UNCHANGED <<lsFault, env, pcInit, flowVars, scoreVars, fnVars, submitVars, visitVars, trackVars, domVars>>

\* a handler of tab t calls blacklistSystem.recordFailedAttempt(reason)
TabRecordFailedAttempt(t, reason) ==
  /\ Has(tabs, t)
  /\ steps < MaxSteps
  /\ steps' = steps + 1
  /\ InstallTab(t, recordFailedAttempt(TabStore(Get(tabs, t)), lsFault, ClientIdOf[TabEnv],
                                       reason, 0))
  /\ lastOp' = [op |-> "recordFailedAttempt", tab |-> t, reason |-> reason]
  /\ UNCHANGED <<lsFault, env, pcInit, flowVars, scoreVars, fnVars, submitVars, visitVars, trackVars, domVars>>

NextTabs ==
  \/ \E t \in TabIds : TabLoad(t)
  \/ \E t \in TabIds, reason \in CallReasons : TabRecordFailedAttempt(t, reason)
  \/ \E d \in TickAmounts : Tick(d)

SpecTabs == Init /\ [][NextTabs]_vars

----------------------------------------------------------------------------
(* recordFailedAttempt on a profile whose client is blacklisted             *)

EntryEnvIds == {1}

\* the store of a page that has recorded nothing
EmptyStore ==
  [ now |-> 0, lsBlacklist |-> NullItem, lsFailedAttempts |-> NullItem,
    lsBotVisits |-> NullItem, failedAttempts |-> <<>>, blacklistedIPs |-> <<>> ]

\* what n calls of recordFailedAttempt("honeypot_filled") in one page of the
\* browser leave
RECURSIVE AfterAttempts(_)
AfterAttempts(n) ==
  IF n = 0 THEN EmptyStore
  ELSE recordFailedAttempt(AfterAttempts(n - 1), "none", ClientIdOf[1], "honeypot_filled", 0)

\* the page that escalated has gone; its items stay
InitEntry ==
  /\ InitProfile(AfterAttempts(maxFailedAttempts).lsBlacklist,
                 AfterAttempts(maxFailedAttempts).lsFailedAttempts, <<>>)
  /\ scoreInput = NoInput
  /\ scoreVerdict = NoVerdict
  /\ fnInput = NoInput
  /\ fnResult = NoVerdict

NextEntry ==
  \/ \E d \in TickAmounts : Tick(d)
  \/ \E i \in EntryEnvIds : PageLoad(i)
  \/ BlacklistInit
  \/ \E reason \in CallReasons, d \in Drifts : CallRecordFailedAttempt(reason, d)

SpecEntry == InitEntry /\ [][NextEntry]_vars

----------------------------------------------------------------------------
(* initializeInteractionTracking                                            *)

\* the most events dispatched to one interactionData object
MaxEvents == 5

\* clientX and clientY of the events: two points at distance 5
PointerPositions == { [x |-> 0, y |-> 0], [x |-> 3, y |-> 4] }

\* interactionData.lastPosition before the first mousemove
NullPosition == [set |-> FALSE]

\* the object literal initializeInteractionTracking starts from
FreshInteractionData(t) ==
  [ tracking |-> TRUE, mouseMoves |-> 0, mouseClicks |-> 0, keyPresses |-> 0,
    touchEvents |-> 0, movementPatterns |-> <<>>, lastPosition |-> NullPosition,
    startTime |-> t ]

\* a tracker that also samples when no time has passed
trackMouseMovement_ZeroTimeSampled(data, e, t) ==
  LET currentPosition == [set |-> TRUE, x |-> e.x, y |-> e.y, time |-> t]
      counted         == [data EXCEPT !.mouseMoves = @ + 1]
      dx              == e.x - data.lastPosition.x
      dy              == e.y - data.lastPosition.y
      timeDiff        == t - data.lastPosition.time
      sample          == [ velocity  |-> [distance2 |-> dx * dx + dy * dy,
                                          timeDiff  |-> timeDiff],
                           direction |-> [dy |-> dy, dx |-> dx] ]
      sampled         ==
        IF data.lastPosition.set /\ timeDiff >= 0
        THEN [counted EXCEPT !.movementPatterns = Append(@, sample)]
        ELSE counted
  IN  [sampled EXCEPT !.lastPosition = currentPosition]

\* trackMouseMovement(e) when Date.now() returns t.  The velocity
\* Math.sqrt(dx^2 + dy^2) / timeDiff is kept as the squared distance and the
\* time difference, the direction Math.atan2(dy, dx) as its two arguments.
trackMouseMovement(data, e, t) ==
  LET currentPosition == [set |-> TRUE, x |-> e.x, y |-> e.y, time |-> t]
      counted         == [data EXCEPT !.mouseMoves = @ + 1]
      dx              == e.x - data.lastPosition.x
      dy              == e.y - data.lastPosition.y
      timeDiff        == t - data.lastPosition.time
      sample          == [ velocity  |-> [distance2 |-> dx * dx + dy * dy,
                                          timeDiff  |-> timeDiff],
                           direction |-> [dy |-> dy, dx |-> dx] ]
      sampled         ==
        IF data.lastPosition.set /\ timeDiff > 0
        THEN [counted EXCEPT !.movementPatterns = Append(@, sample)]
        ELSE counted
  IN  [sampled EXCEPT !.lastPosition = currentPosition]

\* the events one interactionData object has counted
EventsSeen ==
  tracking.mouseMoves + tracking.mouseClicks + tracking.keyPresses
  + tracking.touchEvents

TrackingFrame ==
  UNCHANGED <<lsBlacklist, lsFailedAttempts, lsBotVisits, failedAttempts, blacklistedIPs, lsFault, env, pcInit, flowVars, lastOp, steps, scoreVars,
              fnVars, submitVars, visitVars, tabs, domVars>>

\* initializeCaptcha: interactionData = initializeInteractionTracking()
InitializeInteractionTracking ==
  /\ ~tracking.tracking
  /\ tracking' = FreshInteractionData(now)
  /\ moves' = <<>>
  /\ UNCHANGED now
  /\ TrackingFrame

\* a mousemove event at position e, d milliseconds after the previous event
MouseMove(e, d) ==
  /\ tracking.tracking
  /\ EventsSeen < MaxEvents
  /\ now' = now + d
  /\ tracking' = trackMouseMovement(tracking, e, now')
  /\ moves' = Append(moves, [x |-> e.x, y |-> e.y, time |-> now'])
  /\ TrackingFrame

\* a mousedown event
MouseDown ==
  /\ tracking.tracking
  /\ EventsSeen < MaxEvents
  /\ tracking' = [tracking EXCEPT !.mouseClicks = @ + 1]
  /\ UNCHANGED <<now, moves>>
  /\ TrackingFrame

\* a keydown event
KeyDown ==
  /\ tracking.tracking
  /\ EventsSeen < MaxEvents
  /\ tracking' = [tracking EXCEPT !.keyPresses = @ + 1]
  /\ UNCHANGED <<now, moves>>
  /\ TrackingFrame

\* a touchstart or touchmove event
Touch ==
  /\ tracking.tracking
  /\ EventsSeen < MaxEvents
  /\ tracking' = [tracking EXCEPT !.touchEvents = @ + 1]
  /\ UNCHANGED <<now, moves>>
  /\ TrackingFrame

InitTracking ==
  /\ InitPage
  /\ scoreInput = NoInput
  /\ scoreVerdict = NoVerdict
  /\ fnInput = NoInput
  /\ fnResult = NoVerdict

NextTracking ==
  \/ InitializeInteractionTracking
  \/ \E e \in PointerPositions, d \in Drifts : MouseMove(e, d)
  \/ MouseDown
  \/ KeyDown
  \/ Touch

SpecTracking == InitTracking /\ [][NextTracking]_vars

----------------------------------------------------------------------------
(* The probes that touch the document: detectFonts and detectAdBlocker      *)

\* a node list without node el
Without(children, el) == SelectSeq(children, LAMBDA c : c # el)

IsChild(children, el) == \E k \in 1..Len(children) : children[k] = el

\* document.body.appendChild(el): el becomes the last child
appendChild(children, el) == Append(Without(children, el), el)

\* a removeChild that leaves the node where it is
removeChild_Keeps(children, el) == children

\* document.body.removeChild(el) for a child el
removeChild(children, el) == Without(children, el)

\* the four DOM calls of one pass of the inner loop of detectFonts
MeasurePair(children) ==
  removeChild(appendChild(removeChild(appendChild(children, "span"), "span"), "span"),
              "span")

\* document.body after detectFonts has run from candidate f and baseline k on
\* (the node list of each pass is evaluated before the next pass starts)
RECURSIVE BodyAfterFonts(_, _, _, _)
BodyAfterFonts(children, r, f, k) ==
  IF f > Len(fontList) \/ Len(children) = 0 THEN children
  ELSE IF SameMetrics(r, fontList[f], baseFonts[k]) \/ k = Len(baseFonts)
         THEN BodyAfterFonts(MeasurePair(children), r, f + 1, 1)
         ELSE BodyAfterFonts(MeasurePair(children), r, f, k + 1)

ProbeInputs ==
  { [kind |-> "probes", rendering |-> r, hidden |-> h] :
      r \in FontInputs, h \in BOOLEAN }

InitProbes ==
  /\ InitPage
  /\ scoreInput = NoInput
  /\ scoreVerdict = NoVerdict
  /\ fnInput \in ProbeInputs
  /\ fnResult = NoVerdict

ProbeFrame ==
  UNCHANGED <<storeVars, lsFault, env, pcInit, flowVars, lastOp, steps, scoreVars,
              fnInput, submitVars, visitVars, tabs, trackVars>>

\* detectFonts() runs to its return
DetectFontsOnPage ==
  /\ fnInput.kind = "probes"
  /\ fnResult = NoVerdict
  /\ fnResult' = Returned(detectFonts(fnInput.rendering))
  /\ body' = BodyAfterFonts(body, fnInput.rendering, 1, 1)
  /\ UNCHANGED adBlocker
  /\ ProbeFrame

\* detectAdBlocker() up to setTimeout: the bait is attached
AdBlockerStart ==
  /\ fnInput.kind = "probes"
  /\ adBlocker = NoAdBlockerCall
  /\ body' = appendChild(body, "adsbox")
  /\ adBlocker' = [state |-> "pending"]
  /\ UNCHANGED fnResult
  /\ ProbeFrame

\* a content blocker takes the bait out of the document
BlockerRemovesBait ==
  /\ adBlocker.state = "pending"
  /\ IsChild(body, "adsbox")
  /\ body' = Without(body, "adsbox")
  /\ UNCHANGED <<adBlocker, fnResult>>
  /\ ProbeFrame

\* the timer callback of detectAdBlocker: the bait is measured, removed, and
\* the promise resolved; removeChild throws for a node that is no child
AdBlockerTimer ==
  /\ adBlocker.state = "pending"
  /\ IF IsChild(body, "adsbox")
       THEN /\ body' = removeChild(body, "adsbox")
            /\ adBlocker' = [state |-> "resolved", value |-> fnInput.hidden]
       ELSE /\ body' = body
            /\ adBlocker' = [state |-> "threw"]
  /\ UNCHANGED fnResult
  /\ ProbeFrame

NextProbes ==
  \/ DetectFontsOnPage
  \/ AdBlockerStart
  \/ BlockerRemovesBait
  \/ AdBlockerTimer

SpecProbes == InitProbes /\ [][NextProbes]_vars

----------------------------------------------------------------------------
(* performFinalSecurityChecks and isDevToolsOpen                            *)

\* const threshold = 160
threshold == 160

\* whether the callback of a timer set by a function has run when the same
\* function, still running, clears it: callbacks run only between tasks
TimerRanBeforeClear == FALSE

\* isDevToolsOpen() in window w: the size test, then console.log(element),
\* which reads the id getter when an open console renders the element and
\* which throws when the console was replaced, then the test of debuggerTimer
isDevToolsOpen(w) ==
  LET widthDiff        == w.outerWidth - w.innerWidth
      heightDiff       == w.outerHeight - w.innerHeight
      devToolsDetected == w.getterInvoked
      debuggerTimer    == TimerRanBeforeClear
  IN  IF widthDiff > threshold \/ heightDiff > threshold THEN TRUE
      ELSE IF ~w.consoleThrows /\ ~debuggerTimer THEN TRUE
      ELSE devToolsDetected

\* the five fields of detectAutomation() that performFinalSecurityChecks reads
AutomationSignal(w) ==
  w.webdriver \/ w.headlessUserAgent \/ w.phantomJS \/ w.seleniumAttrs \/ w.noPlugins

performFinalSecurityChecks(w) ==
  IF ~w.topLevel THEN FALSE
  ELSE IF isDevToolsOpen(w) THEN FALSE
  ELSE IF ~w.environmentValid THEN FALSE
  ELSE IF AutomationSignal(w) THEN FALSE
  ELSE TRUE

\* windows with a docked panel or none, with a console that renders the
\* element, ignores it or throws
FinalCheckInputs ==
  [ kind : {"performFinalSecurityChecks"},
    topLevel : BOOLEAN,
    outerWidth : {1280}, innerWidth : {1280, 1120, 1119},
    outerHeight : {800}, innerHeight : {720, 640, 639},
    getterInvoked : BOOLEAN,
    consoleThrows : BOOLEAN,
    environmentValid : BOOLEAN,
    webdriver : BOOLEAN, headlessUserAgent : {FALSE}, phantomJS : {FALSE},
    seleniumAttrs : {FALSE}, noPlugins : BOOLEAN ]

InitFinalChecks ==
  /\ InitPage
  /\ scoreInput = NoInput
  /\ scoreVerdict = NoVerdict
  /\ fnInput \in FinalCheckInputs
  /\ fnResult = NoVerdict

CallPerformFinalSecurityChecks ==
  /\ fnInput.kind = "performFinalSecurityChecks"
  /\ fnResult = NoVerdict
  /\ fnResult' = Returned([ devTools |-> isDevToolsOpen(fnInput),
                            passed   |-> performFinalSecurityChecks(fnInput) ])
  /\ UNCHANGED <<storeVars, lsFault, env, pcInit, flowVars, lastOp, steps, scoreVars,
                 fnInput, submitVars, visitVars, tabs, trackVars, domVars>>

NextFinalChecks == CallPerformFinalSecurityChecks

SpecFinalChecks == InitFinalChecks /\ [][NextFinalChecks]_vars

----------------------------------------------------------------------------
(* getClientIdentifier in two browsers                                      *)

\* the characters of the joined string that the first ClientIdLength base64
\* characters encode
IdSourceLength == (ClientIdLength \div 4) * 3

\* what getClientIdentifier reads of a browser: three user agents, two of them
\* with a common beginning and one shorter than IdSourceLength
Profiles ==
  [ userAgent : {UA_Chrome, UA_Firefox, UA_WgetAvast},
    language : {Lang_enUS, Lang_deDE},
    screenWidth : {1920, 1024}, screenHeight : {1080},
    hardwareConcurrency : {0, 8}, deviceMemory : {8},
    platform : {Platform_Win32, Platform_Linux}, vendor : {Vendor_Google},
    canvasThrows : BOOLEAN, canvasDataURL : {CanvasPng_A} ]

\* getClientIdentifier() in each of them, computed once
ProfileIdOf == [e \in Profiles |-> getClientIdentifier(e)]

\* the store after n failed attempts of client clientId in an empty profile
RECURSIVE AttemptsBy(_, _)
AttemptsBy(clientId, n) ==
  IF n = 0 THEN EmptyStore
  ELSE recordFailedAttempt(AttemptsBy(clientId, n - 1), "none", clientId,
                           "honeypot_filled", 0)

IdentifierInputs == [kind : {"getClientIdentifier"}, a : Profiles, b : Profiles]

InitIdentifiers ==
  /\ InitPage
  /\ scoreInput = NoInput
  /\ scoreVerdict = NoVerdict
  /\ fnInput \in IdentifierInputs
  /\ fnResult = NoVerdict

\* getClientIdentifier() in browser a and in browser b, and the lookup of b
\* after a has been escalated
CallGetClientIdentifier ==
  /\ fnInput.kind = "getClientIdentifier"
  /\ fnResult = NoVerdict
  /\ LET idA == ProfileIdOf[fnInput.a]
         idB == ProfileIdOf[fnInput.b]
     IN  fnResult' = Returned([ a |-> idA, b |-> idB,
                                blocked |-> isClientBlacklisted(
                                              AttemptsBy(idA, maxFailedAttempts),
                                              "none", idB) ])
  /\ UNCHANGED <<storeVars, lsFault, env, pcInit, flowVars, lastOp, steps, scoreVars,
                 fnInput, submitVars, visitVars, tabs, trackVars, domVars>>

NextIdentifiers == CallGetClientIdentifier

SpecIdentifiers == InitIdentifiers /\ [][NextIdentifiers]_vars

----------------------------------------------------------------------------
(* fragmentHandler and the end of redirectToProtectedContent                *)

\* the longest fragment content of the model
MaxFragment == 6

\* {4,50} of identifierPattern and {2,} of emailPattern
MinIdentifier == 4
MaxIdentifier == 50
MinTopLevel == 2

InTable(table, c) == \E k \in 1..Len(table) : table[k] = c

\* [a-zA-Z]
IsLetter(c) == InTable(LowerCase, c) \/ InTable(UpperCase, c)

\* [a-zA-Z0-9]
IsAlphanumeric(c) == IsLetter(c) \/ InTable(Digits, c)

\* the class [a-zA-Z0-9@._\-+%] that sanitizeFragment keeps
AllowedChar(c) == IsAlphanumeric(c) \/ c \in {"@", ".", "_", "-", "+", "%"}

\* [a-zA-Z0-9._%+-], [a-zA-Z0-9.-] and [a-zA-Z0-9_\-@.+]
LocalPartChar(c) == IsAlphanumeric(c) \/ c \in {".", "_", "%", "+", "-"}
DomainChar(c) == IsAlphanumeric(c) \/ c \in {".", "-"}
IdentifierChar(c) == IsAlphanumeric(c) \/ c \in {"_", "-", "@", ".", "+"}

AllIn(s, from, to, Class(_)) == \A k \in from..to : Class(s[k])

\* /^[a-zA-Z0-9._%+-]+@[a-zA-Z0-9.-]+\.[a-zA-Z]{2,}$/.test(content): some
\* "@" at i and some "." at j split content into the three parts
emailPattern(content) ==
  \E i \in 2..Len(content), j \in 4..Len(content) :
    /\ content[i] = "@"
    /\ content[j] = "."
    /\ i + 1 < j
    /\ Len(content) - j >= MinTopLevel
    /\ AllIn(content, 1, i - 1, LocalPartChar)
    /\ AllIn(content, i + 1, j - 1, DomainChar)
    /\ AllIn(content, j + 1, Len(content), IsLetter)

\* /^[a-zA-Z0-9_\-@.+]{4,50}$/.test(content)
identifierPattern(content) ==
  /\ Len(content) >= MinIdentifier
  /\ Len(content) <= MaxIdentifier
  /\ AllIn(content, 1, Len(content), IdentifierChar)

\* the return value null
NullIdentifier == [found |-> FALSE]

\* fragmentHandler.extractIdentifier() when window.location.hash is hash
extractIdentifier(hash) ==
  IF Len(hash) <= 1 THEN NullIdentifier
  ELSE LET content == SubSeq(hash, 2, Len(hash))
       IN  IF emailPattern(content) THEN [found |-> TRUE, value |-> content]
           ELSE IF identifierPattern(content) THEN [found |-> TRUE, value |-> content]
           ELSE NullIdentifier

\* a sanitizer that removes nothing
sanitizeFragment_KeepsAll(fragment) == fragment

\* fragment.replace(/[^a-zA-Z0-9@._\-+%]/g, ''), '' for an empty fragment
sanitizeFragment(fragment) == SelectSeq(fragment, AllowedChar)

getRedirectFragment(hash) ==
  IF Len(hash) <= 1 THEN <<>>
  ELSE LET sanitized == sanitizeFragment(hash)
       IN  IF Len(sanitized) > 0 THEN <<"#">> \o sanitized ELSE <<>>

\* baseUrl.split('#')[0]
RECURSIVE BeforeHash(_)
BeforeHash(url) ==
  IF Len(url) = 0 \/ url[1] = "#" THEN <<>>
  ELSE <<url[1]>> \o BeforeHash(Tail(url))

appendFragmentToUrl(hash, baseUrl) ==
  LET fragment == getRedirectFragment(hash)
  IN  IF Len(fragment) = 0 THEN baseUrl
      ELSE IF InTable(baseUrl, "#") THEN BeforeHash(baseUrl) \o fragment
      ELSE baseUrl \o fragment

\* redirectToProtectedContent from the destination URL on, with
\* fragmentHandler defined and sessionStorage working: the URL navigated to
\* and the item written to sessionStorage
RedirectWithFragment(hash, baseUrl) ==
  LET identifier == extractIdentifier(hash)
  IN  [ href |-> appendFragmentToUrl(hash, baseUrl),
        redirectIdentifier |->
          IF identifier.found /\ Len(identifier.value) > 0 THEN identifier
          ELSE NullIdentifier ]

\* characters of each class of the three patterns, and one of none
FragmentChars == {"a", "@", ".", "%", "<"}

\* window.location.hash: empty, or "#" and what follows it
Hashes ==
  {<<>>} \cup { <<"#">> \o content :
                  content \in UNION { [1..n -> FragmentChars] : n \in 1..MaxFragment } }

\* destination URLs without and with a fragment of their own
BaseUrls == { <<"u">>, <<"u", "#", "f">> }

FragmentInputs == [kind : {"fragment"}, hash : Hashes, baseUrl : BaseUrls]

InitFragment ==
  /\ InitPage
  /\ scoreInput = NoInput
  /\ scoreVerdict = NoVerdict
  /\ fnInput \in FragmentInputs
  /\ fnResult = NoVerdict

CallRedirectWithFragment ==
  /\ fnInput.kind = "fragment"
  /\ fnResult = NoVerdict
  /\ fnResult' = Returned(RedirectWithFragment(fnInput.hash, fnInput.baseUrl))
  /\ UNCHANGED <<storeVars, lsFault, env, pcInit, flowVars, lastOp, steps, scoreVars,
                 fnInput, submitVars, visitVars, tabs, trackVars, domVars>>

NextFragment == CallRedirectWithFragment

SpecFragment == InitFragment /\ [][NextFragment]_vars

----------------------------------------------------------------------------
(* initializeCaptcha when a probe fails                                     *)

\* the positions of initializeCaptcha between its start and its end
Running == {"pending", "collect1", "hash1", "collect2"}

\* initializeCaptcha returned after the decoy, or after it armed the form
Settled == {"halted", "armed"}

\* the timer callback of detectAdBlocker throws at removeChild, the bait being
\* no child of body any more: resolve is never called, and the await of the
\* collection never resumes
AdBlockerTimerThrows ==
  /\ pc \in {"collect1", "collect2"}
  /\ stage = "adblock"
  /\ pc' = "stuck"
  /\ stage' = "none"
  /\ log' = log \o <<"detectAdBlocker">>
  /\ lastOp' = NoOp
  /\ UNCHANGED <<storeVars, lsFault, env, pcInit, blCheck, suspicious, armed,
                 tokenRequested, shown, steps, scoreVars, moreVars>>

\* an expression of the components literal outside any try throws (the read
\* of window.localStorage where site data is blocked, detectFonts,
\* benchmarkPerformance) and the await of the collection resumes with the
\* rejection: the catch of generateBrowserFingerprint takes it in the first
\* collection, nothing does in the second
UncaughtProbeThrows ==
  /\ pc \in {"collect1", "collect2"}
  /\ pcInit = "done"
  /\ stage \in {"canvas", "battery"}
  /\ IF pc = "collect1"
       THEN /\ pc' = "collect2"
            /\ stage' = "canvas"
            /\ log' = log \o <<"generateFallbackFingerprint", "collectFingerprintComponents">>
       ELSE /\ pc' = "failed"
            /\ stage' = "none"
            /\ log' = log \o <<"unhandledrejection">>
  /\ lastOp' = NoOp
  /\ UNCHANGED <<storeVars, lsFault, env, pcInit, blCheck, suspicious, armed,
                 tokenRequested, shown, steps, scoreVars, moreVars>>

\* the user opens the page, or opens it again once the last load is over
LoadWhenIdle(i) ==
  /\ pc \notin Running
  /\ PageLoad(i)

\* what the event queue of the page runs: the two DOMContentLoaded handlers
\* and the continuations and timers of initializeCaptcha
EventQueue ==
  \/ BlacklistInit
  \/ \E d \in NoDrift : CaptchaStart(d)
  \/ CanvasDone
  \/ BatteryDone
  \/ AdBlockDone
  \/ HashDone
  \/ \E d \in NoDrift : Score(d)
  \/ AdBlockerTimerThrows
  \/ UncaughtProbeThrows

NextLive ==
  \/ \E i \in EnvIds : LoadWhenIdle(i)
  \/ EventQueue

\* every task that is ready is run: the queue does not starve a handler
SpecLive == Init /\ [][NextLive]_vars /\ WF_vars(EventQueue)

----------------------------------------------------------------------------
(* Properties                                                               *)

\* what JSON.parse finds under 'captcha_blacklist' and under
\* 'captcha_failed_attempts'; nothing when the item is absent or malformed
PersistedBlacklist == IF lsBlacklist.kind = "json" THEN lsBlacklist.value ELSE <<>>

PersistedAttempts == IF lsFailedAttempts.kind = "json" THEN lsFailedAttempts.value ELSE <<>>

ReasonNames(reasons) == [i \in 1..Len(reasons) |-> reasons[i].reason]

\* a step that is one call of recordFailedAttempt by a handler of the page
RecordStep == lastOp'.op = "recordFailedAttempt" /\ steps' = steps + 1

\* a step in which initializeCaptcha calls checkBlacklist
CheckStep == pc = "pending" /\ pc' # "pending"

\* the user agents that contain a signature of each list once lower-cased, and
\* those that contain a bot signature as they are sent
BotUserAgent ==
  [i \in EnvIds |-> MatchesAny(toLowerCase(Environments[i].userAgent), knownBotSignatures)]

ToolUserAgent ==
  [i \in EnvIds |-> MatchesAny(toLowerCase(Environments[i].userAgent), securityTools)]

BotUserAgentAsSent ==
  [i \in EnvIds |-> MatchesAny(Environments[i].userAgent, knownBotSignatures)]

\* the client of the current page has an entry with expires > now in storage
ActiveEntry ==
  /\ env # 0
  /\ Has(PersistedBlacklist, ClientIdOf[env])
  /\ Get(PersistedBlacklist, ClientIdOf[env]).expires > now

Count(condition) == IF condition THEN 1 ELSE 0

\* how many of the eight full-weight conditions hold of the scored input
FullWeightChecksFired ==
  LET f == scoreInput.fingerprint
      g == scoreInput.globals
  IN    Count(NoFontsCheck(f)) + Count(NoCanvasCheck(f)) + Count(NoWebGLCheck(f))
      + Count(ChromeUACheck(g)) + Count(FirefoxUACheck(g))
      + Count(SpoofedLanguagesCheck(g)) + Count(NoStorageCheck(g))
      + Count(AllPluginsDisabledCheck(g))

HalfWeightCheckFired == PerfectConsistencyCheck(scoreInput.globals)

Occurrences(seq, x) == Cardinality({i \in 1..Len(seq) : seq[i] = x})

----------------------------------------------------------------------------

C1_Step ==
  RecordStep =>
    LET clientId == lastOp'.clientId
        had      == Has(failedAttempts, clientId)
        k        == IF had THEN Get(failedAttempts, clientId).count ELSE 0
        names    == IF had THEN ReasonNames(Get(failedAttempts, clientId).reasons) ELSE <<>>
    IN  IF k + 1 < maxFailedAttempts
          THEN /\ Has(failedAttempts', clientId)
               /\ Get(failedAttempts', clientId).count = k + 1
               /\ PersistedAttempts' = failedAttempts'
               /\ lsBlacklist' = lsBlacklist
          ELSE /\ ~Has(failedAttempts', clientId)
               /\ ~Has(PersistedAttempts', clientId)
               /\ Has(PersistedBlacklist', clientId)
               /\ LET entry == Get(PersistedBlacklist', clientId)
                  IN  /\ Len(entry.reasons) = maxFailedAttempts
                      /\ ReasonNames(entry.reasons) = Append(names, lastOp'.reason)

\* C1: with working storage, a call of recordFailedAttempt that finds the
\* client's record at count k (0 when there is none) leaves, while k + 1 is
\* below the threshold of 3, a record with count k + 1 and the blacklist item
\* untouched; the call that reaches the threshold removes the record and
\* stores a blacklist entry for the client whose reasons are the 3 recorded
\* reasons in call order.
C1_EscalationAtThreshold == [][C1_Step]_vars

\* the third call of one page has just escalated, with reasons that differ
C1_Escalated ==
  /\ lastOp.op = "recordFailedAttempt"
  /\ lastOp.removed
  /\ Has(PersistedBlacklist, lastOp.clientId)
  /\ LET reasons == Get(PersistedBlacklist, lastOp.clientId).reasons
     IN  /\ Len(reasons) = maxFailedAttempts
         /\ reasons[1].reason # reasons[Len(reasons)].reason

C2_Step ==
  (RecordStep /\ Has(PersistedAttempts, lastOp'.clientId)) =>
    LET clientId == lastOp'.clientId
        n        == Get(PersistedAttempts, clientId).count
    IN  IF n + 1 < maxFailedAttempts
          THEN /\ Has(PersistedAttempts', clientId)
               /\ Get(PersistedAttempts', clientId).count = n + 1
          ELSE /\ ~Has(PersistedAttempts', clientId)
               /\ Has(PersistedBlacklist', clientId)

\* C2: failed attempts accumulate over page loads: a call of
\* recordFailedAttempt for a client whose persisted record has count n leaves
\* a persisted record with count n + 1, or, when n + 1 reaches the threshold,
\* a blacklist entry and no record.
C2_AttemptsAccumulateAcrossLoads == [][C2_Step]_vars

\* C3: after isClientBlacklisted the result is false for a client whose entry
\* has expires <= now, and after cleanupExpiredEntries (alone or as part of
\* init) no entry with expires <= now is left in storage.
C3_ExpiredExcludedAndRemoved ==
  /\ ( /\ lastOp.op = "isClientBlacklisted"
       /\ Has(PersistedBlacklist, lastOp.clientId)
       /\ Get(PersistedBlacklist, lastOp.clientId).expires <= now )
     => lastOp.result = FALSE
  /\ lastOp.op \in {"cleanupExpiredEntries", "init"}
     => \A i \in 1..Len(PersistedBlacklist) : PersistedBlacklist[i][2].expires > now

\* C4: every blacklist entry in storage has expires - added equal to
\* blacklistDuration * 1000 ms.
C4_ExpiresIsAddedPlusDuration ==
  \A i \in 1..Len(PersistedBlacklist) :
     PersistedBlacklist[i][2].expires - PersistedBlacklist[i][2].added
       = blacklistDuration * MsPerSecond

\* C5: once checkBlacklist has returned in a page whose user agent contains a
\* bot signature, compared without regard to case, it returned blocked with
\* reason "known_bot", also when the user agent is on the security-tool list.
C5_KnownBotWins ==
  (env # 0 /\ blCheck # "none" /\ BotUserAgent[env]) => blCheck = "known_bot"

\* a user agent on both lists, on the bot list only through its capital
\* letter, was classified
C5_BothListsClassified ==
  /\ env # 0
  /\ blCheck = "known_bot"
  /\ ToolUserAgent[env]
  /\ ~BotUserAgentAsSent[env]

\* C6 as stated: checkBlacklist called for a client with an active entry
\* returns reason "blacklisted".
C6_ActiveEntryReasonBlacklisted ==
  [][(CheckStep /\ ActiveEntry) => blCheck' = "blacklisted"]_vars

\* C6 amended: checkBlacklist called for a client with an active entry
\* returns blocked, with reason "known_bot" when the user agent is on the bot
\* list, else "security_tool" when it is on the security-tool list, else
\* "blacklisted".
C6_ActiveEntryBlocks ==
  [][(CheckStep /\ ActiveEntry) =>
       blCheck' = IF BotUserAgent[env] THEN "known_bot"
                  ELSE IF ToolUserAgent[env] THEN "security_tool"
                  ELSE "blacklisted"]_vars

\* a browser on neither list was blocked for its entry
C6_BlockedForEntry ==
  /\ env # 0
  /\ blCheck = "blacklisted"
  /\ ~BotUserAgent[env]
  /\ ~ToolUserAgent[env]
  /\ shown = "construction"

\* C7: hasTooManySuspiciousPatterns returns true when exactly 4 of the 8
\* full-weight conditions hold and the half-weight one does not, and false
\* when exactly 3 hold and the half-weight one does not.
C7_FourOfEightExceedsThreeDoesNot ==
  (scoreVerdict.returned /\ ~HalfWeightCheckFired) =>
     /\ FullWeightChecksFired = 4 => scoreVerdict.value = TRUE
     /\ FullWeightChecksFired = 3 => scoreVerdict.value = FALSE

\* exactly four full-weight conditions, the two on the user agent among them
C7_FourFired ==
  /\ scoreVerdict.returned
  /\ ~HalfWeightCheckFired
  /\ FullWeightChecksFired = 4
  /\ ChromeUACheck(scoreInput.globals)
  /\ FirefoxUACheck(scoreInput.globals)
  /\ scoreVerdict.value = TRUE

\* C8: when the read of the blacklist item throws or yields malformed JSON,
\* isClientBlacklisted returns false and loadBlacklist leaves the runtime
\* blacklist empty.
C8_ReadFailureDegrades ==
  /\ (lastOp.op = "isClientBlacklisted" /\ lastOp.readFailed) => lastOp.result = FALSE
  /\ (lastOp.op = "loadBlacklist" /\ lastOp.readFailed) => blacklistedIPs = <<>>

\* loadBlacklist ran while getItem threw over a stored entry
C8_LoadedWhileReadThrows ==
  /\ lastOp.op = "loadBlacklist"
  /\ lastOp.readFailed
  /\ lsFault = "getItem"
  /\ Len(PersistedBlacklist) > 0
  /\ blacklistedIPs = <<>>

\* C9: when a call of recordFailedAttempt has removed the client's record,
\* storage holds a blacklist entry for that client.
C9_RemovedOnlyWithEntry ==
  (lastOp.op = "recordFailedAttempt" /\ lastOp.removed)
    => Has(PersistedBlacklist, lastOp.clientId)

\* C10: the submit listener is registered, and the token requested, only
\* after checkBlacklist returned not blocked and the score returned false in
\* this page load; after a blocking checkBlacklist or a true score the
\* construction page is shown and initializeCaptcha has returned with neither
\* done, and in the second case exactly one recordFailedAttempt was called,
\* before showConstructionPage.
C10_ArmedOnlyWhenClean ==
  /\ (armed \/ tokenRequested) => (blCheck = "passed" /\ suspicious = Returned(FALSE))
  /\ blCheck \notin {"none", "passed"} =>
       /\ shown = "construction" /\ pc = "halted" /\ ~armed /\ ~tokenRequested
       /\ log = <<"checkBlacklist", "showConstructionPage">>
  /\ suspicious = Returned(TRUE) =>
       /\ shown = "construction" /\ pc = "halted" /\ ~armed /\ ~tokenRequested
       /\ Occurrences(log, "recordFailedAttempt") = 1
       /\ Occurrences(log, "showConstructionPage") = 1
       /\ log[Len(log) - 1] = "recordFailedAttempt"
       /\ log[Len(log)] = "showConstructionPage"

\* a page load halted on a too-suspicious fingerprint
C10_HaltedOnSuspicion ==
  /\ blCheck = "passed"
  /\ suspicious = Returned(TRUE)
  /\ shown = "construction"
  /\ ~armed

\* the data analysed has 6 samples, all with the velocity and direction of the
\* first, by ===
SixUniformSamples ==
  /\ fnInput.kind = "analyzeInteractions"
  /\ LET patterns == fnInput.data.movementPatterns
     IN  /\ Len(patterns) = 6
         /\ \A i \in 1..Len(patterns) :
              /\ StrictEquals(patterns[i].velocity, patterns[1].velocity)
              /\ StrictEquals(patterns[i].direction, patterns[1].direction)

\* C18: analyzeInteractions returns false for interaction data whose 6
\* movement samples all have the same velocity and the same direction.
C18_UniformMovementRejected ==
  (fnResult.returned /\ SixUniformSamples) => fnResult.value = FALSE

\* six uniform samples that pass the elapsed-time rule were rejected
C18_UniformRejectedOnMovement ==
  /\ fnResult.returned
  /\ SixUniformSamples
  /\ fnInput.data.mouseMoves + fnInput.data.keyPresses >= MinInteractions
  /\ fnResult.value = FALSE

\* the five checks of a submit, each read from what the submit saw in the
\* browser of the page
AllChecksPass(in, i, t) ==
  /\ in.responseLength > 0
  /\ ~in.honeypotFilled
  /\ HumanInteractions(in, t)
  /\ ~AutomationDetected(in, i)
  /\ in.environmentVerified

\* C11: on submit, a failure of any of the five checks (response non-empty,
\* honeypot empty, interactions human, no automation signal, environment
\* verified) has recordFailedAttempt called with a reason before the handler
\* returns, and the decoy page shown instead of an honest message.
C11_EveryFailedCheckIsRecorded ==
  (submit.ran /\ ~AllChecksPass(submit.in, env, submit.at))
    => (submit.recorded # "none" /\ submit.decoy /\ submit.message = "none")

\* C12: handleFormSubmit writes secureToken and tokenTimestamp and schedules
\* the form submission only in an invocation in which all five checks passed;
\* where a check fails the two items stay as they were and nothing is
\* scheduled.
C12_TokenOnlyAfterAllChecks ==
  [][ (/\ submit'.ran
       /\ \/ lsSecureToken' # lsSecureToken
          \/ lsTokenTimestamp' # lsTokenTimestamp
          \/ submit'.wroteToken
          \/ submit'.scheduled)
      => AllChecksPass(submit'.in, env', submit'.at) ]_vars

\* a submit that passed the five checks stored the token with its timestamp
\* and scheduled form.submit
C12_TokenStoredAndSubmitScheduled ==
  /\ submit.ran
  /\ submit.scheduled
  /\ lsSecureToken = TextItem(submit.token)
  /\ lsTokenTimestamp = TextItem(NatToString(submit.at))

\* the stored timestamp as a number, 0 when the item is absent
StoredTimestamp == IF fnInput.written.present THEN fnInput.written.at ELSE 0

\* a non-empty stored secureToken equal to the argument
StoredTokenMatches ==
  /\ fnInput.secureToken.kind = "text"
  /\ fnInput.secureToken.value # ""
  /\ fnInput.secureToken.value = fnInput.token

\* C13: redirectToProtectedContent navigates only if a non-empty stored
\* secureToken equals the token argument and now - tokenTimestamp <= 600000;
\* with a missing, mismatched or expired token, or a missing tokenTimestamp,
\* it shows an error and does not navigate.
C13_NavigatesOnlyWithFreshMatchingToken ==
  (fnInput.kind = "redirect" /\ fnResult.returned) =>
    /\ fnResult.value.navigated =>
         (StoredTokenMatches /\ fnInput.now - StoredTimestamp <= MaxTokenAge)
    /\ ( /\ ~fnResult.value.threw
         /\ \/ ~StoredTokenMatches
            \/ fnInput.now - StoredTimestamp > MaxTokenAge
            \/ ~fnInput.written.present )
       => (~fnResult.value.navigated /\ fnResult.value.error # "none")

\* a matching token whose timestamp item is missing was refused as expired
C13_MissingTimestampRefused ==
  /\ fnInput.kind = "redirect"
  /\ fnResult.returned
  /\ StoredTokenMatches
  /\ ~fnInput.written.present
  /\ fnResult.value.error = "Security token expired. Please try again."
  /\ ~fnResult.value.navigated

\* the probes that suspend collectFingerprintComponents, in the order of its
\* awaits
AwaitedProbes == <<"generateCanvasFingerprint", "getBatteryInfo", "detectAdBlocker">>

\* C14: hasTooManySuspiciousPatterns is invoked only after the canvas digest,
\* the battery query and the ad-blocker probe of the fingerprint it receives
\* have all completed: its call is preceded, since the start of that
\* collection, by the three completions.
C14_ScoredAfterProbesComplete ==
  \A k \in 1..Len(log) :
    log[k] = "hasTooManySuspiciousPatterns" =>
      /\ k > Len(AwaitedProbes) + 1
      /\ log[k - Len(AwaitedProbes) - 1] = "collectFingerprintComponents"
      /\ \A j \in 1..Len(AwaitedProbes) :
           log[k - Len(AwaitedProbes) - 1 + j] = AwaitedProbes[j]

\* the score was computed on a page load and let the page go on
C14_ScoredAndArmed ==
  /\ Occurrences(log, "hasTooManySuspiciousPatterns") = 1
  /\ suspicious = Returned(FALSE)
  /\ pc = "armed"

\* C15: collectFingerprintComponents never fails: whichever probes throw, its
\* promise resolves to a components record in which each failed probe holds
\* its sentinel value, and no exception reaches initializeCaptcha.
C15_CollectionNeverFails ==
  (fnInput.kind = "collect" /\ fnResult.returned) =>
    /\ fnResult.value.outcome = "resolved"
    /\ \A probe \in fnInput.throwing :
         fnResult.value.components[probe] = Sentinel(probe)

\* C16: isClientBlacklisted never mutates state: the persisted blacklist, the
\* persisted failed-attempt map and the in-memory store are the same after a
\* call as before it, also when the blacklist holds expired entries.
C16_LookupLeavesStateAlone ==
  [][ (lastOp'.op = "isClientBlacklisted" /\ lastOp' # lastOp) =>
        /\ lsBlacklist' = lsBlacklist
        /\ lsFailedAttempts' = lsFailedAttempts
        /\ lsBotVisits' = lsBotVisits
        /\ failedAttempts' = failedAttempts
        /\ blacklistedIPs' = blacklistedIPs ]_vars

\* a lookup of a client whose entry has expired answered false and the entry
\* is still in storage
C16_ExpiredEntryLookedUp ==
  /\ lastOp.op = "isClientBlacklisted"
  /\ Has(PersistedBlacklist, lastOp.clientId)
  /\ IsExpired(Get(PersistedBlacklist, lastOp.clientId), now)
  /\ lastOp.result = FALSE

\* JSON.parse of the 'bot_visits' item
PersistedVisits == IF lsBotVisits.kind = "json" THEN lsBotVisits.value ELSE <<>>

\* C17: after any sequence of recordBotVisit calls with working storage, the
\* persisted bot_visits holds at most 100 records, and they are the most
\* recent visits in the order they were recorded.
C17_LastHundredVisitsKept ==
  /\ Len(PersistedVisits) <= MaxBotVisits
  /\ Len(PersistedVisits) = IF Len(visitLog) > MaxBotVisits THEN MaxBotVisits ELSE Len(visitLog)
  /\ \A k \in 1..Len(PersistedVisits) :
       PersistedVisits[k] = visitLog[Len(visitLog) - Len(PersistedVisits) + k]

\* more visits than the cap were recorded and the oldest were dropped
C17_CapReached ==
  /\ Len(visitLog) > MaxBotVisits + 1
  /\ Len(PersistedVisits) = MaxBotVisits
  /\ PersistedVisits[1] = visitLog[Len(visitLog) - MaxBotVisits + 1]
  /\ PersistedVisits[1] # visitLog[1]

\* the box of a candidate differs from the baseline-only box under every
\* baseline family
DiffersUnderAllBaselines(font) ==
  \A k \in 1..Len(baseFonts) :
    LET base == fnInput.baseBox[baseFonts[k]]
        test == IF font \in fnInput.installed THEN FontBox(font) ELSE base
    IN  base[1] # test[1] \/ base[2] # test[2]

\* the candidates that differ under all baselines, in list order
RECURSIVE DifferingFrom(_)
DifferingFrom(k) ==
  IF k > Len(fontList) THEN <<>>
  ELSE (IF DiffersUnderAllBaselines(fontList[k]) THEN <<fontList[k]>> ELSE <<>>)
         \o DifferingFrom(k + 1)

\* C19: detectFonts reports a candidate font exactly when its box differs from
\* the baseline-only box under all three baseline families, in list order;
\* with no candidate available the result is empty, and when every candidate
\* differs from all three baselines it is the whole candidate list.
C19_DetectedIffDiffersFromAllBaselines ==
  (fnInput.kind = "detectFonts" /\ fnResult.returned) =>
    /\ fnResult.value = DifferingFrom(1)
    /\ fnInput.installed = {} => fnResult.value = <<>>
    /\ (\A k \in 1..Len(fontList) : DiffersUnderAllBaselines(fontList[k]))
         => fnResult.value = fontList

\* an installed font with the box of one baseline family was left out while
\* others were reported
C19_InstalledFontWithBaselineBoxMissed ==
  /\ fnInput.kind = "detectFonts"
  /\ fnResult.returned
  /\ fnResult.value # <<>>
  /\ \E k \in 1..Len(fontList) :
       /\ fontList[k] \in fnInput.installed
       /\ \A j \in 1..Len(fnResult.value) : fnResult.value[j] # fontList[k]

\* the attempts of the browser's client in a failed-attempt map
AttemptsIn(map) ==
  IF Has(map, ClientIdOf[TabEnv]) THEN Get(map, ClientIdOf[TabEnv]).count ELSE 0

\* the reasons of the browser's client in a failed-attempt map
ReasonsIn(map) ==
  IF Has(map, ClientIdOf[TabEnv])
    THEN {Get(map, ClientIdOf[TabEnv]).reasons[k].reason :
            k \in 1..Len(Get(map, ClientIdOf[TabEnv]).reasons)}
    ELSE {}

\* C20: with two tabs of one origin interleaving recordFailedAttempt on the
\* shared persisted map, an attempt recorded by one tab can be absent from the
\* persisted map after the other tab's write: each write stores the count of
\* the writing tab alone, one more than that tab had in memory (or no record
\* once the threshold is reached), whatever the other tab had persisted.
C20_WriteCountsWritersAttemptsOnly ==
  [][ (lastOp'.op = "recordFailedAttempt" /\ steps' = steps + 1) =>
        LET mine == AttemptsIn(Get(tabs, lastOp'.tab).failedAttempts) + 1
        IN  AttemptsIn(PersistedAttempts') = IF mine >= maxFailedAttempts THEN 0 ELSE mine
    ]_vars

\* tab 1 recorded a filled honeypot, then tab 2 wrote its own first attempt:
\* the persisted map holds one attempt and not the honeypot
C20_LostUpdate ==
  /\ lastOp.op = "recordFailedAttempt"
  /\ lastOp.tab = 2
  /\ Has(tabs, 1)
  /\ "honeypot_filled" \in ReasonsIn(Get(tabs, 1).failedAttempts)
  /\ AttemptsIn(PersistedAttempts) = 1
  /\ "honeypot_filled" \notin ReasonsIn(PersistedAttempts)

\* C21: whenever a passing submit leads to the form being submitted, storage
\* holds a secureToken that is non-empty and equal to the token
\* generateSecureToken minted for that page load, for every interleaving of
\* the submit event with the token-minting continuation.
C21_SubmittedFormHasMintedToken ==
  (submit.ran /\ submit.submitted) =>
    /\ lsSecureToken.kind = "text"
    /\ lsSecureToken.value # ""
    /\ lsSecureToken.value = MintedToken

\* C22: a BlacklistEntry is created only by escalation and destroyed only by
\* expiry: while a client has an active entry, no call of recordFailedAttempt
\* changes the entry's added, expires or reasons.
C22_ActiveEntryUntouchedByAttempts ==
  [][ ( /\ RecordStep
        /\ Has(PersistedBlacklist, lastOp'.clientId)
        /\ IsActive(Get(PersistedBlacklist, lastOp'.clientId), now) )
      => /\ Has(PersistedBlacklist', lastOp'.clientId)
         /\ Get(PersistedBlacklist', lastOp'.clientId)
              = Get(PersistedBlacklist, lastOp'.clientId) ]_vars

\* the consecutive pairs of samples with equal velocity or equal direction,
\* each pair counted once
RECURSIVE EqualPairs(_, _)
EqualPairs(patterns, i) ==
  IF i > Len(patterns) THEN 0
  ELSE Count(/\ i > 1
             /\ \/ StrictEquals(patterns[i - 1].velocity, patterns[i].velocity)
                \/ StrictEquals(patterns[i - 1].direction, patterns[i].direction))
       + EqualPairs(patterns, i + 1)

\* elapsed > 2000 ms with fewer than 3 interactions in all
FailsVolumeRule ==
  /\ fnInput.now - fnInput.data.startTime > MinElapsed
  /\ fnInput.data.mouseMoves + fnInput.data.mouseClicks + fnInput.data.keyPresses
       + fnInput.data.touchEvents < MinInteractions

\* C23: for data that does not fail the elapsed-time/volume rule,
\* analyzeInteractions returns true with 5 or fewer movement samples, and with
\* more than 5 returns false exactly when the consecutive pairs with equal
\* velocity or equal direction, each counted once, divided by the number of
\* samples exceed 0.3.
C23_FalseIffEqualPairsExceedRatio ==
  (fnInput.kind = "analyzeInteractions" /\ fnResult.returned /\ ~FailsVolumeRule) =>
    LET patterns == fnInput.data.movementPatterns
    IN  fnResult.value =
          ~( /\ Len(patterns) > MinPatterns
             /\ EqualPairs(patterns, 1) * UniformRatioDen > UniformRatioNum * Len(patterns) )

\* the number of events in the log, up to the k-th, that follow an event with
\* a strictly smaller timestamp
RECURSIVE LaterMoves(_)
LaterMoves(k) ==
  IF k < 2 THEN 0
  ELSE LaterMoves(k - 1) + (IF moves[k - 1].time < moves[k].time THEN 1 ELSE 0)

\* C24: after any sequence of mousemove events, mouseMoves is the number of
\* events, lastPosition is the position and time of the latest one, and
\* movementPatterns holds one sample for each event whose predecessor has a
\* strictly smaller timestamp, hence at most mouseMoves - 1 samples.
C24_TrackerCountsEveryMove ==
  (tracking.tracking /\ moves # <<>>) =>
    /\ tracking.mouseMoves = Len(moves)
    /\ tracking.lastPosition =
         [set |-> TRUE, x |-> moves[Len(moves)].x, y |-> moves[Len(moves)].y,
          time |-> moves[Len(moves)].time]
    /\ Len(tracking.movementPatterns) = LaterMoves(Len(moves))
    /\ Len(tracking.movementPatterns) <= tracking.mouseMoves - 1
    /\ \A k \in 1..Len(tracking.movementPatterns) :
         tracking.movementPatterns[k].velocity.timeDiff > 0

\* three moves, one of them with no time passed since its predecessor
C24_ZeroTimeMoveSkipped ==
  /\ tracking.tracking
  /\ Len(moves) = 3
  /\ moves[2].time = moves[1].time
  /\ moves[3].time > moves[2].time
  /\ Len(tracking.movementPatterns) = 1

\* suspiciousCount of the scored input, in half points, counted check by check
WeightedHalfPoints ==
  2 * FullWeightChecksFired + Count(HalfWeightCheckFired)

\* C25: the count is divided by 8 on every path and the integer-pixel-ratio
\* check weighs one half, so the verdict is true exactly when the weighted
\* score is at least 3.5: three full-weight checks plus the pixel-ratio check
\* are too many, three full-weight checks alone or two plus the pixel-ratio
\* check are not.
C25_TrueIffWeightedScoreAtLeastThreeAndAHalf ==
  scoreVerdict.returned =>
    /\ scoreVerdict.value = (WeightedHalfPoints >= 7)
    /\ (FullWeightChecksFired = 3 /\ HalfWeightCheckFired) => scoreVerdict.value = TRUE
    /\ (FullWeightChecksFired = 3 /\ ~HalfWeightCheckFired) => scoreVerdict.value = FALSE
    /\ (FullWeightChecksFired = 2 /\ HalfWeightCheckFired) => scoreVerdict.value = FALSE

\* three full-weight conditions and an integer device pixel ratio
C25_ThreeAndPixelRatioFired ==
  /\ scoreVerdict.returned
  /\ FullWeightChecksFired = 3
  /\ HalfWeightCheckFired
  /\ scoreVerdict.value = TRUE

\* C26: after detectFonts has returned its span is not attached, and after
\* detectAdBlocker has resolved its bait is not attached, whatever fonts were
\* detected and whatever the ad-blocker check found.
C26_ProbesLeaveNoNodeAttached ==
  /\ fnResult.returned => ~IsChild(body, "span")
  /\ adBlocker.state = "resolved" => ~IsChild(body, "adsbox")
  /\ (fnResult.returned /\ adBlocker.state = "resolved") => body = PageChildren

\* both probes are done: some fonts were detected, others not, and the bait
\* was hidden
C26_BothProbesDone ==
  /\ fnResult.returned
  /\ Len(fnResult.value) > 0
  /\ Len(fnResult.value) < Len(fontList)
  /\ adBlocker.state = "resolved"
  /\ adBlocker.value = TRUE
  /\ body = PageChildren

\* C27: when the outer-minus-inner width and height differences are both at
\* most 160 and the id getter of the probe element is never invoked,
\* isDevToolsOpen returns false, and performFinalSecurityChecks returns true
\* for a top-level window with a valid environment and no automation signal.
C27_NoDevToolsSignNoDetection ==
  ( /\ fnResult.returned
    /\ fnInput.outerWidth - fnInput.innerWidth <= threshold
    /\ fnInput.outerHeight - fnInput.innerHeight <= threshold
    /\ ~fnInput.getterInvoked ) =>
      /\ fnResult.value.devTools = FALSE
      /\ ( fnInput.topLevel /\ fnInput.environmentValid /\ ~AutomationSignal(fnInput) )
           => fnResult.value.passed = TRUE

\* the user agents of the two browsers agree on their first IdSourceLength
\* characters
SameUserAgentStart ==
  substring0(fnInput.a.userAgent, IdSourceLength)
    = substring0(fnInput.b.userAgent, IdSourceLength)

\* the identifier of one client is on the blacklist the other one reads
SharedState == fnResult.value.a = fnResult.value.b /\ fnResult.value.blocked

\* C28 as stated: two environments whose user agents agree on their first 24
\* characters get the same ClientIdentifier, whatever their other attributes,
\* and share failed-attempt records and blacklist entries.
C28_SameUserAgentStartSameIdentifier ==
  (fnResult.returned /\ SameUserAgentStart) => SharedState

\* C28: the ClientIdentifier depends only on the first 24 characters of the
\* joined component string; two environments whose user agents have at least
\* 24 characters and agree on the first 24 get the same ClientIdentifier,
\* whatever their other attributes, and share failed-attempt records and
\* blacklist entries.
C28_SameJoinedStartSameIdentifier ==
  fnResult.returned =>
    /\ ( substring0(join(ClientIdComponents(fnInput.a), Pipe), IdSourceLength)
           = substring0(join(ClientIdComponents(fnInput.b), Pipe), IdSourceLength) )
         => SharedState
    /\ ( /\ SameUserAgentStart
         /\ Len(fnInput.a.userAgent) >= IdSourceLength
         /\ Len(fnInput.b.userAgent) >= IdSourceLength ) => SharedState

\* two browsers with different user agents, languages, screens and canvases
\* that are one client
C28_DifferentBrowsersOneClient ==
  /\ fnResult.returned
  /\ fnInput.a.userAgent = UA_Chrome
  /\ fnInput.b.userAgent = UA_Firefox
  /\ fnInput.a.language # fnInput.b.language
  /\ fnInput.a.screenWidth # fnInput.b.screenWidth
  /\ fnInput.a.canvasThrows # fnInput.b.canvasThrows
  /\ SharedState

\* every character of s is a letter, a digit or one of @ . _ - + %
OnlyAllowedChars(s) == \A k \in 1..Len(s) : AllowedChar(s[k])

\* what the call appended to the destination URL, without its "#"
AppendedFragment ==
  LET base == BeforeHash(fnInput.baseUrl)
      href == fnResult.value.href
  IN  IF href = fnInput.baseUrl THEN <<>>
      ELSE SubSeq(href, Len(base) + 2, Len(href))

\* C29: the identifier stored under redirectIdentifier and the fragment
\* appended to the destination URL consist only of letters, digits and
\* @ . _ - + %, and sanitizing a fragment twice equals sanitizing it once.
C29_StoredAndAppendedAreSanitized ==
  fnResult.returned =>
    /\ fnResult.value.redirectIdentifier.found
         => OnlyAllowedChars(fnResult.value.redirectIdentifier.value)
    /\ OnlyAllowedChars(AppendedFragment)
    /\ fnResult.value.href # fnInput.baseUrl
         => fnResult.value.href[Len(BeforeHash(fnInput.baseUrl)) + 1] = "#"
    /\ sanitizeFragment(sanitizeFragment(fnInput.hash)) = sanitizeFragment(fnInput.hash)

\* a fragment with characters outside the class was appended without them,
\* in place of the fragment the destination URL had
C29_UnsafeFragmentAppendedClean ==
  /\ fnResult.returned
  /\ InTable(fnInput.hash, "<")
  /\ InTable(fnInput.hash, "%")
  /\ InTable(fnInput.baseUrl, "#")
  /\ Len(AppendedFragment) > 0
  /\ Len(AppendedFragment) < Len(fnInput.hash) - 1
  /\ ~fnResult.value.redirectIdentifier.found

\* C30: with a fair event queue every run of initializeCaptcha reaches one of
\* its two ends, the decoy page shown or the submit handler armed, and the
\* collection and the scoring never stay pending for ever and never end in an
\* uncaught failure.
C30_EveryLoadSettles ==
  /\ [](pc \in Running => <>(pc \in Settled))
  /\ [](pc # "failed")
====
